---- MODULE Spec2Model ----
(***************************************************************************)
(* Offer reconciliation of the FunPay watchdog.                            *)
(*                                                                         *)
(* Two run variants are modelled side by side:                             *)
(*   "local" = funpay_scraper_local.py  (enriched snapshot, notify-once    *)
(*             removal marker, Discord with Telegram fallback)             *)
(*   "v3"    = funpay_scraper_v3.py     (snapshot id -> price, removed      *)
(*             count only, state saved only on a relevant change)          *)
(* One behaviour is a sequence of runs of one variant against one state    *)
(* file.  Amounts are whole dollars; Python None is the value None.        *)
(*                                                                         *)
(* Three functions are also modelled on their own, one call per behaviour: *)
(*   SpecSend   = send_discord_notification on a text, chunk by chunk      *)
(*   SpecLoad   = load_offer_state on any content of the state file        *)
(*   SpecScrape = the extraction loop of scrape_all_offers_details         *)
(*                                                                         *)
(* SpecV2 is funpay_scraper_v2.py, the earlier script that only tracks the *)
(* ids already notified, in an append-only text file.                      *)
(***************************************************************************)
EXTENDS Integers, Sequences, FiniteSets, TLC

\* ---------------------------------------------------------------- bounds
MaxRuns == 4
\* lines of a text handed to send_discord_notification
MaxDocLines == 3
\* listing records of a page handed to the extraction loop
MaxPageRecords == 3

\* ------------------------------------------------------------- constants
None == -1
Inf == 1000000
PRICE_CHANGE_PERCENT_THRESHOLD == 5

Variants == {"local", "v3"}
Ids == {100, 200}
\* 21 -> 20 is a 4.76% drop, 20 -> 19 exactly 5%, 21 -> 19 a 9.52% drop
PriceValues == {19, 20, 21}
Prices == PriceValues \cup {None}

VARIABLES
    variant,                 \* which script is run
    now,                     \* current_iso_timestamp, as the number of the run
    pc,                      \* position of the running script
    stateFile,               \* content of OFFER_STATE_FILE
    stateFileTruncated,      \* the last write stopped midway: the file is not valid JSON
    saveOutcome,             \* how the save of this run ended, "none" before it
    notify_via_telegram,
    notify_via_discord,
    previous_offer_state,
    current_offers_scrape_dict,
    next_offer_state,
    scraped_offer_ids,
    new_offers_notify,
    discounted_offers_notify,
    removed_offers_notify,
    removed_offer_count,
    full_message,
    attempts,                \* delivery calls of this run, in order
    any_notification_platform_succeeded,
    writes,                  \* writes to the state file made by this run
    absentBefore,            \* ids absent in the last run whose save succeeded
    reappearedBefore,        \* ids that reappeared in the last run whose save succeeded
    retainedBaseline,        \* stored price of the ids whose decrease stayed at or below
                             \* the threshold in the last run whose save succeeded
    \* one call of send_discord_notification
    message_text,            \* the text handed to the sender
    remaining_message,
    message_index,
    overall_success,
    sent_any_chunk,
    posted,                  \* payloads posted to the webhook, each with its outcome
    send_pc,                 \* position of the call
    send_result,             \* value returned by the call
    \* one call of load_offer_state
    state_file_content,      \* what is on disk under OFFER_STATE_FILE
    loaded_state,            \* value returned by the call
    load_pc,
    \* one call of scrape_all_offers_details
    offer_containers,        \* the listing records found on the page
    all_offers_details,      \* value returned by the call
    scrape_pc,
    \* funpay_scraper_v2.py
    processed_ids_file,      \* lines of PROCESSED_IDS_FILE
    processed_ids_set,
    current_scraped_ids,
    new_offer_ids,
    notification_sent,
    v2_pc,
    v2_runs,                 \* invocations so far
    unnotified_ids           \* new ids of the last run left out of the file by a failed notification

runVars == <<variant, now, pc, stateFile, stateFileTruncated, saveOutcome,
             notify_via_telegram, notify_via_discord,
             previous_offer_state, current_offers_scrape_dict, next_offer_state,
             scraped_offer_ids, new_offers_notify, discounted_offers_notify,
             removed_offers_notify, removed_offer_count, full_message, attempts,
             any_notification_platform_succeeded, writes, absentBefore,
             reappearedBefore, retainedBaseline>>

sendVars == <<message_text, remaining_message, message_index, overall_success,
              sent_any_chunk, posted, send_pc, send_result>>

loadVars == <<state_file_content, loaded_state, load_pc>>

scrapeVars == <<offer_containers, all_offers_details, scrape_pc>>

v2Vars == <<processed_ids_file, processed_ids_set, current_scraped_ids, new_offer_ids,
            notification_sent, v2_pc, v2_runs, unnotified_ids>>

pureVars == <<sendVars, loadVars, scrapeVars, v2Vars>>

vars == <<runVars, pureVars>>

\* ------------------------------------------------------- generic helpers
EmptyMap == [i \in {} |-> None]

IdsOf(s) == {s[i].id : i \in 1..Len(s)}

\* number of entries of list s that carry id
Occurrences(s, id) == Cardinality({i \in 1..Len(s) : s[i].id = id})

\* d.get(key) of a Python dict: None when the key is missing
Get(d, key) == IF key \in DOMAIN d THEN d[key] ELSE None

\* d[key] = val on a Python dict
Put(d, key, val) == [k \in DOMAIN d \cup {key} |-> IF k = key THEN val ELSE d[k]]

\* every ordering of a finite set as a sequence without repetition
Orderings(S) ==
    {s \in [1..Cardinality(S) -> S] : \A i, j \in 1..Cardinality(S) : s[i] = s[j] => i = j}

\* the dict returned by a successful scrape, in page order: distinct ids
ScrapeResults ==
    UNION {
        {[i \in 1..Cardinality(S) |-> [id |-> o[i], price_usd |-> p[o[i]]]] :
            o \in Orderings(S), p \in [S -> Prices]}
        : S \in SUBSET Ids}

\* ------------------------------------------------------ snapshot store
\* load_offer_state of funpay_scraper_local.py: every dict entry is kept,
\* missing fields get their setdefault value (price_usd gets none)
load_offer_state_local(file) ==
    [id \in DOMAIN file |->
        [k \in DOMAIN file[id] \cup {"id", "last_seen_active", "notified_as_removed_at"} |->
            IF k \in DOMAIN file[id] THEN file[id][k]
            ELSE IF k = "id" THEN id ELSE None]]

\* load_offer_state of funpay_scraper_v3.py: {id: price}, entries whose value
\* is neither a number nor None are skipped
load_offer_state_v3(file) ==
    [id \in {i \in DOMAIN file : file[i] \in Int} |-> file[id]]

\* a file that is not valid JSON is logged and read as the empty snapshot
load_offer_state(v, file, truncated) ==
    IF truncated THEN EmptyMap
    ELSE IF v = "local" THEN load_offer_state_local(file) ELSE load_offer_state_v3(file)

\* ------------------------------------------------------ price comparison
\* percent_decrease = abs(price_diff / last_price) * 100.0, kept as a fraction
percent_decrease(last_price, current_price) ==
    [num |-> (last_price - current_price) * 100, den |-> last_price]

\* percent_decrease > PRICE_CHANGE_PERCENT_THRESHOLD
ReachesThreshold(pd) == pd.num >= PRICE_CHANGE_PERCENT_THRESHOLD * pd.den

ExceedsThreshold(pd) == pd.num > PRICE_CHANGE_PERCENT_THRESHOLD * pd.den

\* ------------------------------------- reconciliation, funpay_scraper_local
\* current_details_from_scrape after last_seen_active is stamped
ScrapedDetails(offer, ts) ==
    [id |-> offer.id, price_usd |-> offer.price_usd, last_seen_active |-> ts]

\* the price kept in details_for_next_state when a decrease stays at or
\* below the threshold
SuppressedPriceCurrent(last_price, current_price) == current_price

SuppressedPrice(last_price, current_price) == last_price

\* whether a known offer with a removal marker is appended to new_offers_notify
ReappearedNotifiedInverted(last_known) == Get(last_known, "notified_as_removed_at") = None

ReappearedNotified(last_known) == Get(last_known, "notified_as_removed_at") # None

\* the marker stored for an offer that has reappeared
ReappearedMarkerKept(last_known) == Get(last_known, "notified_as_removed_at")

ReappearedMarker(last_known) == None

\* one iteration of the loop over current_offers_scrape_dict;
\* st = [next |-> next_offer_state, new |-> new_offers_notify,
\*       disc |-> discounted_offers_notify]
LocalOfferStep(prev, st, offer, ts) ==
    LET cur == ScrapedDetails(offer, ts)
        details0 == [id |-> offer.id, price_usd |-> offer.price_usd,
                     last_seen_active |-> ts, notified_as_removed_at |-> None]
    IN  IF offer.id \notin DOMAIN prev
        THEN [next |-> Put(st.next, offer.id, details0),
              new  |-> Append(st.new, cur),
              disc |-> st.disc]
        ELSE
          LET last_known == prev[offer.id]
              details == IF ReappearedNotified(last_known)
                         THEN [details0 EXCEPT !.notified_as_removed_at =
                                  ReappearedMarker(last_known)]
                         ELSE details0
              new1 == IF ReappearedNotified(last_known)
                      THEN Append(st.new, cur) ELSE st.new
              current_price == cur.price_usd
              last_price == Get(last_known, "price_usd")
          IN  IF current_price # None /\ last_price # None /\ last_price > 0
              THEN
                IF current_price - last_price < 0
                THEN
                  LET pd == percent_decrease(last_price, current_price)
                  IN  IF ExceedsThreshold(pd)
                      THEN [next |-> Put(st.next, offer.id, details),
                            new  |-> new1,
                            disc |-> Append(st.disc,
                                       [id |-> cur.id, price_usd |-> cur.price_usd,
                                        last_seen_active |-> ts,
                                        last_price |-> last_price,
                                        discount_percent |-> pd])]
                      ELSE [next |-> Put(st.next, offer.id,
                                       [details EXCEPT !.price_usd =
                                           SuppressedPrice(last_price, current_price)]),
                            new  |-> new1,
                            disc |-> st.disc]
                ELSE [next |-> Put(st.next, offer.id, details),
                      new |-> new1, disc |-> st.disc]
              ELSE IF current_price # None /\ last_price = None
              THEN [next |-> Put(st.next, offer.id, details),
                    new  |-> Append(new1, cur),
                    disc |-> st.disc]
              ELSE [next |-> Put(st.next, offer.id, details),
                    new |-> new1, disc |-> st.disc]

RECURSIVE LocalLoop(_, _, _, _, _)
LocalLoop(prev, st, scrape, i, ts) ==
    IF i > Len(scrape) THEN st
    ELSE LocalLoop(prev, LocalOfferStep(prev, st, scrape[i], ts), scrape, i + 1, ts)

\* the marker written on an entry reported as removed
RemovalMarkerNotSet(ts) == None

RemovalMarker(ts) == ts

\* the loop over removed_offer_ids_this_cycle, visited in the order given;
\* st = [next |-> next_offer_state, removed |-> removed_offers_notify]
RECURSIVE RemovedLoop(_, _, _, _)
RemovedLoop(st, order, i, ts) ==
    IF i > Len(order) THEN st
    ELSE
      LET id == order[i]
      IN  IF id \in DOMAIN st.next /\ Get(st.next[id], "notified_as_removed_at") = None
          THEN
            LET marked == Put(st.next[id], "notified_as_removed_at", RemovalMarker(ts))
            IN  RemovedLoop([next |-> Put(st.next, id, marked),
                             removed |-> Append(st.removed, marked)],
                            order, i + 1, ts)
          ELSE RemovedLoop(st, order, i + 1, ts)

\* --------------------------------------- reconciliation, funpay_scraper_v3
\* one iteration of the loop over current_offers_details;
\* st = [next |-> offers_for_next_state, new |-> new_offers, disc |-> discounted_offers]
V3OfferStep(prev, st, offer) ==
    LET cur == [id |-> offer.id, price_usd |-> offer.price_usd]
        current_price == offer.price_usd
        last_price == Get(prev, offer.id)
        next1 == Put(st.next, offer.id, current_price)
    IN  IF offer.id \notin DOMAIN prev
        THEN [next |-> next1, new |-> Append(st.new, cur), disc |-> st.disc]
        ELSE IF current_price # None /\ last_price # None /\ last_price > 0
        THEN
          IF current_price - last_price < 0
             /\ ExceedsThreshold(percent_decrease(last_price, current_price))
          THEN [next |-> next1, new |-> st.new,
                disc |-> Append(st.disc,
                           [id |-> cur.id, price_usd |-> cur.price_usd,
                            last_price |-> last_price,
                            discount_percent |-> percent_decrease(last_price, current_price)])]
          ELSE [next |-> next1, new |-> st.new, disc |-> st.disc]
        ELSE IF current_price # None /\ last_price = None
        THEN [next |-> next1, new |-> Append(st.new, cur), disc |-> st.disc]
        ELSE [next |-> next1, new |-> st.new, disc |-> st.disc]

RECURSIVE V3Loop(_, _, _, _)
V3Loop(prev, st, scrape, i) ==
    IF i > Len(scrape) THEN st
    ELSE V3Loop(prev, V3OfferStep(prev, st, scrape[i]), scrape, i + 1)

\* ------------------------------------------------------------- sorting
\* price_sort_key = lambda item: item.get('price_usd', float('inf')):
\* the default is used only when the key is missing, a stored None is returned
price_sort_key(item) ==
    IF "price_usd" \in DOMAIN item THEN item.price_usd ELSE Inf

\* list.sort compares keys with <; None < x, x < None and None < None raise
\* TypeError, and a list of two or more items compares every item once at least
SortRaises(list) ==
    Len(list) >= 2 /\ \E i \in 1..Len(list) : price_sort_key(list[i]) = None

\* stable insertion: x goes behind every item whose key is not greater
RECURSIVE InsertByKey(_, _)
InsertByKey(sorted, x) ==
    IF sorted = <<>> THEN <<x>>
    ELSE IF price_sort_key(x) < price_sort_key(sorted[Len(sorted)])
         THEN Append(InsertByKey(SubSeq(sorted, 1, Len(sorted) - 1), x), sorted[Len(sorted)])
         ELSE Append(sorted, x)

RECURSIVE SortByPriceFrom(_, _, _)
SortByPriceFrom(list, i, acc) ==
    IF i > Len(list) THEN acc
    ELSE SortByPriceFrom(list, i + 1, InsertByKey(acc, list[i]))

\* list.sort(key=price_sort_key) when it does not raise
SortByPrice(list) == SortByPriceFrom(list, 1, <<>>)

\* ----------------------------------------------------------- formatting
\* append_offer_section: nothing for an empty list, else a title and one
\* numbered entry per offer; returns the parts and the advanced counter
append_offer_section_restart(fm, offer_list, section_title) ==
    IF offer_list = <<>> THEN fm
    ELSE [parts |-> fm.parts \o <<[kind |-> "section", title |-> section_title]>>
                    \o [i \in 1..Len(offer_list) |->
                          [kind |-> "entry", number |-> i, id |-> offer_list[i].id]],
          item_counter |-> fm.item_counter]

append_offer_section(fm, offer_list, section_title) ==
    IF offer_list = <<>> THEN fm
    ELSE [parts |-> fm.parts \o <<[kind |-> "section", title |-> section_title]>>
                    \o [i \in 1..Len(offer_list) |->
                          [kind |-> "entry", number |-> fm.item_counter + i,
                           id |-> offer_list[i].id]],
          item_counter |-> fm.item_counter + Len(offer_list)]

\* the message composed by funpay_scraper_local.py; <<>> is the empty string
FormatLocalMessage(new, disc, removed, ts) ==
    LET fm0 == [parts |-> <<[kind |-> "header", at |-> ts]>>, item_counter |-> 0]
        fm1 == append_offer_section(fm0, new, "New/Reappeared")
        fm2 == append_offer_section(fm1, disc, "On Sale")
        fm3 == append_offer_section(fm2, removed, "Removed/Sold")
    IN  IF new = <<>> /\ disc = <<>> /\ removed = <<>> THEN <<>>
        ELSE IF Len(fm3.parts) > 1 THEN fm3.parts ELSE <<>>

\* the message composed by funpay_scraper_v3.py
FormatV3Message(new, disc, removed_count, ts) ==
    LET fm0 == [parts |-> <<[kind |-> "header", at |-> ts]>>, item_counter |-> 0]
        fm1 == append_offer_section(fm0, new, "New Offers")
        fm2 == append_offer_section(fm1, disc, "On Sale")
    IN  IF new # <<>> \/ disc # <<>>
        THEN IF removed_count > 0
             THEN fm2.parts \o <<[kind |-> "also_removed", count |-> removed_count]>>
             ELSE fm2.parts
        ELSE IF removed_count > 0
        THEN <<[kind |-> "header", at |-> ts],
               [kind |-> "only_removed", count |-> removed_count]>>
        ELSE <<>>

\* ------------------------------------------------------- derived values
notification_needed ==
    new_offers_notify # <<>> \/ discounted_offers_notify # <<>> \/ removed_offers_notify # <<>>

state_update_always == TRUE

state_update_needed ==
    new_offers_notify # <<>> \/ discounted_offers_notify # <<>> \/ removed_offer_count > 0

discord_attempted_and_failed ==
    \E i \in 1..Len(attempts) : attempts[i] = [backend |-> "discord", ok |-> FALSE]

Attempted(b) == \E i \in 1..Len(attempts) : attempts[i].backend = b

\* ------------------------------------------------------------------ text
\* A text is a sequence of runs; a run is len characters of one class: "t"
\* (not whitespace), "s" (spaces), "n" (newlines).  src is the 0-based
\* position of the run's first character in the text handed to the sender,
\* -1 for characters the sender inserts.
Run(cls, len, src) == [cls |-> cls, len |-> len, src |-> src]

Inserted(cls, len) == Run(cls, len, -1)

\* len(s)
RECURSIVE StrLen(_)
StrLen(s) == IF s = <<>> THEN 0 ELSE Head(s).len + StrLen(Tail(s))

\* s[:k]
RECURSIVE SliceTo(_, _)
SliceTo(s, k) ==
    IF k <= 0 \/ s = <<>> THEN <<>>
    ELSE IF Head(s).len <= k THEN <<Head(s)>> \o SliceTo(Tail(s), k - Head(s).len)
    ELSE <<[Head(s) EXCEPT !.len = k]>>

\* s[k:]
RECURSIVE SliceFrom(_, _)
SliceFrom(s, k) ==
    IF s = <<>> THEN <<>>
    ELSE IF k <= 0 THEN s
    ELSE IF Head(s).len <= k THEN SliceFrom(Tail(s), k - Head(s).len)
    ELSE <<[Head(s) EXCEPT !.len = @ - k, !.src = IF @ < 0 THEN @ ELSE @ + k]>> \o Tail(s)

IsWhitespace(run) == run.cls \in {"s", "n"}

\* s.lstrip()
RECURSIVE lstrip(_)
lstrip(s) ==
    IF s = <<>> THEN <<>>
    ELSE IF IsWhitespace(Head(s)) THEN lstrip(Tail(s)) ELSE s

\* s.rstrip()
RECURSIVE rstrip(_)
rstrip(s) ==
    IF s = <<>> THEN <<>>
    ELSE IF IsWhitespace(s[Len(s)]) THEN rstrip(SubSeq(s, 1, Len(s) - 1)) ELSE s

\* s.strip()
strip(s) == rstrip(lstrip(s))

\* index of the last newline of s, counted from position at; -1 when none
RECURSIVE LastNewline(_, _)
LastNewline(s, at) ==
    IF s = <<>> THEN -1
    ELSE LET later == LastNewline(Tail(s), at + Head(s).len)
         IN  IF later # -1 THEN later
             ELSE IF Head(s).cls = "n" THEN at + Head(s).len - 1 ELSE -1

\* s.rfind('\n', 0, end)
rfind_newline(s, end) == LastNewline(SliceTo(s, end), 0)

\* number of decimal digits of n
RECURSIVE Digits(_)
Digits(n) == IF n < 10 THEN 1 ELSE 1 + Digits(n \div 10)

\* f"(Part {message_index}) ...\n"
PartIndicator(index) ==
    <<Inserted("t", 5), Inserted("s", 1), Inserted("t", Digits(index) + 1),
      Inserted("s", 1), Inserted("t", 3), Inserted("n", 1)>>

\* "\n... (Continued in next part)"
ContinuedMarker ==
    <<Inserted("n", 1), Inserted("t", 3), Inserted("s", 1), Inserted("t", 10),
      Inserted("s", 1), Inserted("t", 2), Inserted("s", 1), Inserted("t", 4),
      Inserted("s", 1), Inserted("t", 5)>>

\* "..."
Ellipsis == <<Inserted("t", 3)>>

\* "\n...(hard truncated)"
HardTruncatedMarker ==
    <<Inserted("n", 1), Inserted("t", 8), Inserted("s", 1), Inserted("t", 10)>>

\* the lines of a text joined by "\n", every run placed at its position; a
\* line is len characters of one class
RECURSIVE JoinLines(_, _)
JoinLines(lines, at) ==
    IF lines = <<>> THEN <<>>
    ELSE LET line == Head(lines)
             here == IF line.len = 0 THEN <<>> ELSE <<Run(line.cls, line.len, at)>>
             end  == at + line.len
         IN  IF Len(lines) = 1 THEN here
             ELSE here \o <<Run("n", 1, end)>> \o JoinLines(Tail(lines), end + 1)

\* --------------------------------------------- send_discord_notification
DISCORD_MAX_MSG_LENGTH == 2000

\* the cut of one loop turn: the chunk taken and what remains of the message
SplitChunk(remaining) ==
    IF StrLen(remaining) <= DISCORD_MAX_MSG_LENGTH
    THEN [chunk_to_send |-> remaining, remaining_message |-> <<>>]
    ELSE LET found == rfind_newline(remaining, DISCORD_MAX_MSG_LENGTH)
             split_point == IF found = -1 THEN DISCORD_MAX_MSG_LENGTH ELSE found
         IN  [chunk_to_send |-> SliceTo(remaining, split_point),
              remaining_message |-> lstrip(SliceFrom(remaining, split_point))]

part_indicator(index) == IF index > 1 THEN PartIndicator(index) ELSE <<>>

\* funpay_scraper_local.py: the chunk is shortened to leave room for the part
\* indicator and the continuation marker
TruncatedChunk(chunk_to_send, rest, index) ==
    LET reserved_space == StrLen(Ellipsis \o ContinuedMarker) + StrLen(part_indicator(index))
    IN  IF rest # <<>>
        THEN IF StrLen(chunk_to_send) + reserved_space > DISCORD_MAX_MSG_LENGTH
             THEN SliceTo(chunk_to_send, DISCORD_MAX_MSG_LENGTH - reserved_space - 3)
                      \o Ellipsis
             ELSE chunk_to_send
        ELSE IF StrLen(part_indicator(index)) + StrLen(chunk_to_send) > DISCORD_MAX_MSG_LENGTH
             THEN SliceTo(chunk_to_send,
                          DISCORD_MAX_MSG_LENGTH - StrLen(part_indicator(index)) - 3)
                      \o Ellipsis
             ELSE chunk_to_send

\* funpay_scraper_local.py: the payload of loop turn index
FinalChunkLocal(remaining, index) ==
    LET cut == SplitChunk(remaining)
        assembled ==
            part_indicator(index)
                \o TruncatedChunk(cut.chunk_to_send, cut.remaining_message, index)
                \o (IF cut.remaining_message # <<>> THEN ContinuedMarker ELSE <<>>)
    IN  IF StrLen(assembled) > DISCORD_MAX_MSG_LENGTH
        THEN SliceTo(assembled, DISCORD_MAX_MSG_LENGTH - 20) \o HardTruncatedMarker
        ELSE assembled

\* funpay_scraper_v3.py: the payload of loop turn index
FinalChunkV3(remaining, index) ==
    LET cut == SplitChunk(remaining)
    IN  part_indicator(index) \o cut.chunk_to_send
            \o (IF cut.remaining_message # <<>> THEN ContinuedMarker ELSE <<>>)

\* ---------------------------------------------------------------- Init
RunIdle ==
    /\ variant \in Variants
    /\ now = 0
    /\ pc = "idle"
    /\ stateFile = EmptyMap
    /\ stateFileTruncated = FALSE
    /\ saveOutcome = "none"
    /\ notify_via_telegram = FALSE
    /\ notify_via_discord = FALSE
    /\ previous_offer_state = EmptyMap
    /\ current_offers_scrape_dict = <<>>
    /\ next_offer_state = EmptyMap
    /\ scraped_offer_ids = {}
    /\ new_offers_notify = <<>>
    /\ discounted_offers_notify = <<>>
    /\ removed_offers_notify = <<>>
    /\ removed_offer_count = 0
    /\ full_message = <<>>
    /\ attempts = <<>>
    /\ any_notification_platform_succeeded = FALSE
    /\ writes = 0
    /\ absentBefore = {}
    /\ reappearedBefore = {}
    /\ retainedBaseline = EmptyMap

\* no call of send_discord_notification is under way
SendIdle ==
    /\ message_text = <<>>
    /\ remaining_message = <<>>
    /\ message_index = 0
    /\ overall_success = TRUE
    /\ sent_any_chunk = FALSE
    /\ posted = <<>>
    /\ send_pc = "idle"
    /\ send_result = FALSE

\* no call of load_offer_state is under way
LoadIdle ==
    /\ state_file_content = [kind |-> "missing"]
    /\ loaded_state = EmptyMap
    /\ load_pc = "idle"

\* no call of scrape_all_offers_details is under way
ScrapeIdle ==
    /\ offer_containers = <<>>
    /\ all_offers_details = <<>>
    /\ scrape_pc = "idle"

V2Idle ==
    /\ processed_ids_file = <<>>
    /\ processed_ids_set = {}
    /\ current_scraped_ids = {}
    /\ new_offer_ids = {}
    /\ notification_sent = FALSE
    /\ v2_pc = "idle"
    /\ v2_runs = 0
    /\ unnotified_ids = {}

Init == RunIdle /\ SendIdle /\ LoadIdle /\ ScrapeIdle /\ V2Idle

\* -------------------------------------------------------------- actions
\* a new invocation: read the credentials, exit when none is configured
StartRun(tg, dc) ==
    /\ pc \in {"idle", "done", "exit", "crashed"}
    /\ now < MaxRuns
    /\ now' = now + 1
    /\ notify_via_telegram' = tg
    /\ notify_via_discord' = dc
    /\ pc' = IF ~tg /\ ~dc THEN "exit" ELSE "start"
    /\ previous_offer_state' = EmptyMap
    /\ current_offers_scrape_dict' = <<>>
    /\ next_offer_state' = EmptyMap
    /\ scraped_offer_ids' = {}
    /\ new_offers_notify' = <<>>
    /\ discounted_offers_notify' = <<>>
    /\ removed_offers_notify' = <<>>
    /\ removed_offer_count' = 0
    /\ full_message' = <<>>
    /\ attempts' = <<>>
    /\ any_notification_platform_succeeded' = FALSE
    /\ writes' = 0
    /\ saveOutcome' = "none"
    /\ UNCHANGED <<variant, stateFile, absentBefore, reappearedBefore, retainedBaseline>>
    /\ UNCHANGED <<stateFileTruncated, pureVars>>

\* 1. previous_offer_state = load_offer_state(OFFER_STATE_FILE)
LoadState ==
    /\ pc = "start"
    /\ previous_offer_state' = load_offer_state(variant, stateFile, stateFileTruncated)
    /\ pc' = "loaded"
    /\ UNCHANGED <<variant, now, stateFile, notify_via_telegram, notify_via_discord,
                   current_offers_scrape_dict, next_offer_state, scraped_offer_ids,
                   new_offers_notify, discounted_offers_notify, removed_offers_notify,
                   removed_offer_count, full_message, attempts,
                   any_notification_platform_succeeded, writes, absentBefore,
                   reappearedBefore, retainedBaseline>>
    /\ UNCHANGED <<stateFileTruncated, saveOutcome, pureVars>>

\* 2. scrape_all_offers_details returned None: sys.exit
ScrapeFailedWipesState ==
    /\ pc = "loaded"
    /\ pc' = "exit"
    /\ stateFile' = EmptyMap
    /\ writes' = writes + 1
    /\ UNCHANGED <<variant, now, notify_via_telegram, notify_via_discord,
                   previous_offer_state, current_offers_scrape_dict, next_offer_state,
                   scraped_offer_ids, new_offers_notify, discounted_offers_notify,
                   removed_offers_notify, removed_offer_count, full_message, attempts,
                   any_notification_platform_succeeded, absentBefore, reappearedBefore, retainedBaseline>>
    /\ UNCHANGED <<stateFileTruncated, saveOutcome, pureVars>>

ScrapeFailed ==
    /\ pc = "loaded"
    /\ pc' = "exit"
    /\ UNCHANGED <<variant, now, stateFile, notify_via_telegram, notify_via_discord,
                   previous_offer_state, current_offers_scrape_dict, next_offer_state,
                   scraped_offer_ids, new_offers_notify, discounted_offers_notify,
                   removed_offers_notify, removed_offer_count, full_message, attempts,
                   any_notification_platform_succeeded, writes, absentBefore,
                   reappearedBefore, retainedBaseline>>
    /\ UNCHANGED <<stateFileTruncated, saveOutcome, pureVars>>

\* 2. scrape_all_offers_details returned a dict ({} when the page has no offer)
ScrapeSucceeded(result) ==
    /\ pc = "loaded"
    /\ current_offers_scrape_dict' = result
    /\ pc' = "scraped"
    /\ UNCHANGED <<variant, now, stateFile, notify_via_telegram, notify_via_discord,
                   previous_offer_state, next_offer_state,
                   scraped_offer_ids, new_offers_notify, discounted_offers_notify,
                   removed_offers_notify, removed_offer_count, full_message, attempts,
                   any_notification_platform_succeeded, writes, absentBefore,
                   reappearedBefore, retainedBaseline>>
    /\ UNCHANGED <<stateFileTruncated, saveOutcome, pureVars>>

\* next_offer_state = previous_offer_state.copy()
NextStateEmptyAtStart(previous) == EmptyMap

NextStateAtStart(previous) == previous

\* 3. funpay_scraper_local.py: the loop over the scraped offers
ReconcileLocal ==
    /\ variant = "local"
    /\ pc = "scraped"
    /\ LET st == LocalLoop(previous_offer_state,
                           [next |-> NextStateAtStart(previous_offer_state),
                            new |-> <<>>, disc |-> <<>>],
                           current_offers_scrape_dict, 1, now)
       IN  /\ next_offer_state' = st.next
           /\ new_offers_notify' = st.new
           /\ discounted_offers_notify' = st.disc
    /\ scraped_offer_ids' = IdsOf(current_offers_scrape_dict)
    /\ pc' = "reconciled"
    /\ UNCHANGED <<variant, now, stateFile, notify_via_telegram, notify_via_discord,
                   previous_offer_state, current_offers_scrape_dict,
                   removed_offers_notify, removed_offer_count, full_message, attempts,
                   any_notification_platform_succeeded, writes, absentBefore,
                   reappearedBefore, retainedBaseline>>
    /\ UNCHANGED <<stateFileTruncated, saveOutcome, pureVars>>

\* previous_offer_ids - scraped_offer_ids
removed_ids_not_subtracted == DOMAIN next_offer_state

removed_offer_ids_this_cycle == DOMAIN previous_offer_state \ scraped_offer_ids

\* funpay_scraper_local.py: the loop over removed_offer_ids_this_cycle, a set
\* of strings whose iteration order is not fixed.  next_offer_state is a
\* shallow copy, so the marker lands in previous_offer_state's entry as well.
MarkRemovedLocal ==
    /\ variant = "local"
    /\ pc = "reconciled"
    /\ \E order \in Orderings(removed_offer_ids_this_cycle) :
         LET st == RemovedLoop([next |-> next_offer_state, removed |-> <<>>], order, 1, now)
         IN  /\ next_offer_state' = st.next
             /\ removed_offers_notify' = st.removed
             /\ previous_offer_state' =
                  [id \in DOMAIN previous_offer_state |->
                      IF id \in scraped_offer_ids THEN previous_offer_state[id]
                      ELSE st.next[id]]
    /\ pc' = "removed_done"
    /\ UNCHANGED <<variant, now, stateFile, notify_via_telegram, notify_via_discord,
                   current_offers_scrape_dict, scraped_offer_ids, removed_offer_count,
                   new_offers_notify, discounted_offers_notify, full_message, attempts,
                   any_notification_platform_succeeded, writes, absentBefore,
                   reappearedBefore, retainedBaseline>>
    /\ UNCHANGED <<stateFileTruncated, saveOutcome, pureVars>>

\* 3. funpay_scraper_v3.py: the loop over the scraped offers and the removed count
ReconcileV3 ==
    /\ variant = "v3"
    /\ pc = "scraped"
    /\ LET st == V3Loop(previous_offer_state,
                        [next |-> EmptyMap, new |-> <<>>, disc |-> <<>>],
                        current_offers_scrape_dict, 1)
       IN  /\ next_offer_state' = st.next
           /\ new_offers_notify' = st.new
           /\ discounted_offers_notify' = st.disc
    /\ scraped_offer_ids' = IdsOf(current_offers_scrape_dict)
    /\ removed_offer_count' =
          Cardinality(DOMAIN previous_offer_state \ IdsOf(current_offers_scrape_dict))
    /\ pc' = "removed_done"
    /\ UNCHANGED <<variant, now, stateFile, notify_via_telegram, notify_via_discord,
                   previous_offer_state, current_offers_scrape_dict,
                   removed_offers_notify, full_message, attempts,
                   any_notification_platform_succeeded, writes, absentBefore,
                   reappearedBefore, retainedBaseline>>
    /\ UNCHANGED <<stateFileTruncated, saveOutcome, pureVars>>

\* funpay_scraper_local.py: the three list.sort calls; an uncaught TypeError
\* ends the run
SortLocal ==
    /\ variant = "local"
    /\ pc = "removed_done"
    /\ IF SortRaises(new_offers_notify) \/ SortRaises(discounted_offers_notify)
          \/ SortRaises(removed_offers_notify)
       THEN /\ pc' = "crashed"
            /\ UNCHANGED <<new_offers_notify, discounted_offers_notify, removed_offers_notify>>
       ELSE /\ pc' = "sorted"
            /\ new_offers_notify' = SortByPrice(new_offers_notify)
            /\ discounted_offers_notify' = SortByPrice(discounted_offers_notify)
            /\ removed_offers_notify' = SortByPrice(removed_offers_notify)
    /\ UNCHANGED <<variant, now, stateFile, notify_via_telegram, notify_via_discord,
                   previous_offer_state, current_offers_scrape_dict, next_offer_state,
                   scraped_offer_ids, removed_offer_count, full_message, attempts,
                   any_notification_platform_succeeded, writes, absentBefore,
                   reappearedBefore, retainedBaseline>>
    /\ UNCHANGED <<stateFileTruncated, saveOutcome, pureVars>>

\* 4. funpay_scraper_v3.py: the two list.sort calls
SortV3 ==
    /\ variant = "v3"
    /\ pc = "removed_done"
    /\ IF SortRaises(new_offers_notify) \/ SortRaises(discounted_offers_notify)
       THEN /\ pc' = "crashed"
            /\ UNCHANGED <<new_offers_notify, discounted_offers_notify>>
       ELSE /\ pc' = "sorted"
            /\ new_offers_notify' = SortByPrice(new_offers_notify)
            /\ discounted_offers_notify' = SortByPrice(discounted_offers_notify)
    /\ UNCHANGED <<variant, now, stateFile, notify_via_telegram, notify_via_discord,
                   previous_offer_state, current_offers_scrape_dict, next_offer_state,
                   scraped_offer_ids, removed_offers_notify, removed_offer_count,
                   full_message, attempts,
                   any_notification_platform_succeeded, writes, absentBefore,
                   reappearedBefore, retainedBaseline>>
    /\ UNCHANGED <<stateFileTruncated, saveOutcome, pureVars>>

\* 5. funpay_scraper_local.py: compose full_message when notification_needed
FormatLocal ==
    /\ variant = "local"
    /\ pc = "sorted"
    /\ full_message' = IF notification_needed
                       THEN FormatLocalMessage(new_offers_notify, discounted_offers_notify,
                                               removed_offers_notify, now)
                       ELSE <<>>
    /\ pc' = "formatted"
    /\ UNCHANGED <<variant, now, stateFile, notify_via_telegram, notify_via_discord,
                   previous_offer_state, current_offers_scrape_dict, next_offer_state,
                   scraped_offer_ids, new_offers_notify, discounted_offers_notify,
                   removed_offers_notify, removed_offer_count, attempts,
                   any_notification_platform_succeeded, writes, absentBefore,
                   reappearedBefore, retainedBaseline>>
    /\ UNCHANGED <<stateFileTruncated, saveOutcome, pureVars>>

\* 5. funpay_scraper_v3.py: compose full_message when state_update_needed
FormatV3 ==
    /\ variant = "v3"
    /\ pc = "sorted"
    /\ full_message' = IF state_update_needed
                       THEN FormatV3Message(new_offers_notify, discounted_offers_notify,
                                            removed_offer_count, now)
                       ELSE <<>>
    /\ pc' = "formatted"
    /\ UNCHANGED <<variant, now, stateFile, notify_via_telegram, notify_via_discord,
                   previous_offer_state, current_offers_scrape_dict, next_offer_state,
                   scraped_offer_ids, new_offers_notify, discounted_offers_notify,
                   removed_offers_notify, removed_offer_count, attempts,
                   any_notification_platform_succeeded, writes, absentBefore,
                   reappearedBefore, retainedBaseline>>
    /\ UNCHANGED <<stateFileTruncated, saveOutcome, pureVars>>

\* whether funpay_scraper_local.py goes on to Telegram after the Discord branch
TelegramAlways == notify_via_telegram

TelegramFallback ==
    notify_via_telegram /\ (~notify_via_discord \/ discord_attempted_and_failed)

\* funpay_scraper_local.py: the Discord branch; ok is what
\* send_discord_notification returns
DispatchDiscordAnyMessage(ok) ==
    /\ variant = "local"
    /\ pc = "formatted"
    /\ IF notify_via_discord
       THEN /\ attempts' = Append(attempts, [backend |-> "discord", ok |-> ok])
            /\ any_notification_platform_succeeded' = ok
       ELSE UNCHANGED <<attempts, any_notification_platform_succeeded>>
    /\ pc' = "discord_done"
    /\ UNCHANGED <<variant, now, stateFile, notify_via_telegram, notify_via_discord,
                   previous_offer_state, current_offers_scrape_dict, next_offer_state,
                   scraped_offer_ids, new_offers_notify, discounted_offers_notify,
                   removed_offers_notify, removed_offer_count, full_message,
                   writes, absentBefore, reappearedBefore, retainedBaseline>>
    /\ UNCHANGED <<stateFileTruncated, saveOutcome, pureVars>>

DispatchDiscordLocal(ok) ==
    /\ variant = "local"
    /\ pc = "formatted"
    /\ IF full_message # <<>> /\ notify_via_discord
       THEN /\ attempts' = Append(attempts, [backend |-> "discord", ok |-> ok])
            /\ any_notification_platform_succeeded' = ok
       ELSE UNCHANGED <<attempts, any_notification_platform_succeeded>>
    /\ pc' = "discord_done"
    /\ UNCHANGED <<variant, now, stateFile, notify_via_telegram, notify_via_discord,
                   previous_offer_state, current_offers_scrape_dict, next_offer_state,
                   scraped_offer_ids, new_offers_notify, discounted_offers_notify,
                   removed_offers_notify, removed_offer_count, full_message,
                   writes, absentBefore, reappearedBefore, retainedBaseline>>
    /\ UNCHANGED <<stateFileTruncated, saveOutcome, pureVars>>

\* funpay_scraper_local.py: the Telegram branch; ok is what
\* send_telegram_notification returns
DispatchTelegramLocal(ok) ==
    /\ variant = "local"
    /\ pc = "discord_done"
    /\ IF full_message # <<>> /\ TelegramFallback
       THEN /\ attempts' = Append(attempts, [backend |-> "telegram", ok |-> ok])
            /\ any_notification_platform_succeeded' =
                  (any_notification_platform_succeeded \/ ok)
       ELSE UNCHANGED <<attempts, any_notification_platform_succeeded>>
    /\ pc' = "dispatched"
    /\ UNCHANGED <<variant, now, stateFile, notify_via_telegram, notify_via_discord,
                   previous_offer_state, current_offers_scrape_dict, next_offer_state,
                   scraped_offer_ids, new_offers_notify, discounted_offers_notify,
                   removed_offers_notify, removed_offer_count, full_message,
                   writes, absentBefore, reappearedBefore, retainedBaseline>>
    /\ UNCHANGED <<stateFileTruncated, saveOutcome, pureVars>>

\* funpay_scraper_v3.py: if notify_via_discord ... elif notify_via_telegram ...
DispatchV3(ok) ==
    /\ variant = "v3"
    /\ pc = "formatted"
    /\ IF state_update_needed /\ full_message # <<>>
          /\ (notify_via_discord \/ notify_via_telegram)
       THEN /\ attempts' = Append(attempts,
                  [backend |-> IF notify_via_discord THEN "discord" ELSE "telegram",
                   ok |-> ok])
            /\ any_notification_platform_succeeded' = ok
       ELSE UNCHANGED <<attempts, any_notification_platform_succeeded>>
    /\ pc' = "dispatched"
    /\ UNCHANGED <<variant, now, stateFile, notify_via_telegram, notify_via_discord,
                   previous_offer_state, current_offers_scrape_dict, next_offer_state,
                   scraped_offer_ids, new_offers_notify, discounted_offers_notify,
                   removed_offers_notify, removed_offer_count, full_message,
                   writes, absentBefore, reappearedBefore, retainedBaseline>>
    /\ UNCHANGED <<stateFileTruncated, saveOutcome, pureVars>>

\* save_offer_state(filename, state) opens the file for writing, which empties
\* it, and dumps the state into it; an exception is logged.  The file is
\* replaced ("written"), or the error comes before the file is opened and the
\* file stays as it was ("untouched"), or the error comes after it and the
\* file is left empty or with a part of the JSON text ("truncated").
SaveOutcomes == {"written", "untouched", "truncated"}

save_offer_state(file, state, outcome) ==
    IF outcome = "written" THEN state
    ELSE IF outcome = "untouched" THEN file
    ELSE EmptyMap

\* whether the file is left without valid JSON
save_truncates(truncated, outcome) ==
    IF outcome = "written" THEN FALSE
    ELSE IF outcome = "untouched" THEN truncated
    ELSE TRUE

\* ids of the scrape whose price is below the loaded one by no more than the
\* threshold
SmallDecreaseIds ==
    {id \in DOMAIN previous_offer_state :
        \E i \in 1..Len(current_offers_scrape_dict) :
            LET o == current_offers_scrape_dict[i]
                last_price == Get(previous_offer_state[id], "price_usd")
            IN  /\ o.id = id
                /\ o.price_usd # None
                /\ last_price # None
                /\ last_price > 0
                /\ o.price_usd < last_price
                /\ ~ExceedsThreshold(percent_decrease(last_price, o.price_usd))}

\* funpay_scraper_local.py: the state is saved whatever the delivery outcome
SaveLocal(outcome) ==
    /\ variant = "local"
    /\ pc = "dispatched"
    /\ stateFile' = save_offer_state(stateFile, next_offer_state, outcome)
    /\ stateFileTruncated' = save_truncates(stateFileTruncated, outcome)
    /\ saveOutcome' = outcome
    /\ writes' = writes + 1
    /\ absentBefore' = IF outcome = "written" THEN DOMAIN previous_offer_state \ scraped_offer_ids
                       ELSE absentBefore
    /\ reappearedBefore' =
          IF outcome = "written"
          THEN {id \in scraped_offer_ids \cap DOMAIN stateFile :
                   Get(stateFile[id], "notified_as_removed_at") # None}
          ELSE reappearedBefore
    /\ retainedBaseline' =
          IF outcome = "written"
          THEN [id \in SmallDecreaseIds |-> Get(previous_offer_state[id], "price_usd")]
          ELSE retainedBaseline
    /\ pc' = "done"
    /\ UNCHANGED <<variant, now, notify_via_telegram, notify_via_discord,
                   previous_offer_state, current_offers_scrape_dict, next_offer_state,
                   scraped_offer_ids, new_offers_notify, discounted_offers_notify,
                   removed_offers_notify, removed_offer_count, full_message, attempts,
                   any_notification_platform_succeeded>>
    /\ UNCHANGED pureVars

\* funpay_scraper_v3.py: the state is saved only when state_update_needed
SaveV3(outcome) ==
    /\ variant = "v3"
    /\ pc = "dispatched"
    /\ IF state_update_needed
       THEN /\ stateFile' = save_offer_state(stateFile, next_offer_state, outcome)
            /\ stateFileTruncated' = save_truncates(stateFileTruncated, outcome)
            /\ saveOutcome' = outcome
            /\ writes' = writes + 1
            /\ absentBefore' = IF outcome = "written"
                               THEN DOMAIN previous_offer_state \ scraped_offer_ids
                               ELSE absentBefore
            /\ UNCHANGED <<reappearedBefore, retainedBaseline>>
       ELSE UNCHANGED <<stateFile, stateFileTruncated, saveOutcome, writes, absentBefore,
                        reappearedBefore, retainedBaseline>>
    /\ pc' = "done"
    /\ UNCHANGED <<variant, now, notify_via_telegram, notify_via_discord,
                   previous_offer_state, current_offers_scrape_dict, next_offer_state,
                   scraped_offer_ids, new_offers_notify, discounted_offers_notify,
                   removed_offers_notify, removed_offer_count, full_message, attempts,
                   any_notification_platform_succeeded>>
    /\ UNCHANGED pureVars

Next ==
    \/ \E tg, dc \in BOOLEAN : StartRun(tg, dc)
    \/ LoadState
    \/ ScrapeFailed
    \/ \E result \in ScrapeResults : ScrapeSucceeded(result)
    \/ ReconcileLocal
    \/ MarkRemovedLocal
    \/ ReconcileV3
    \/ SortLocal
    \/ SortV3
    \/ FormatLocal
    \/ FormatV3
    \/ \E ok \in BOOLEAN : DispatchDiscordLocal(ok)
    \/ \E ok \in BOOLEAN : DispatchTelegramLocal(ok)
    \/ \E ok \in BOOLEAN : DispatchV3(ok)
    \/ \E outcome \in SaveOutcomes : SaveLocal(outcome)
    \/ \E outcome \in SaveOutcomes : SaveV3(outcome)

Spec == Init /\ [][Next]_vars

\* ------------------------------- one call of send_discord_notification
\* The lines a text is made of: empty, short, spaces only, almost a full
\* message, longer than a full message.
LineChoices ==
    {[cls |-> "t", len |-> 0], [cls |-> "t", len |-> 10], [cls |-> "s", len |-> 2],
     [cls |-> "t", len |-> 1980], [cls |-> "t", len |-> 2100]}

Documents ==
    {JoinLines(lines, 0) : lines \in UNION {[1..k -> LineChoices] : k \in 1..MaxDocLines}}

\* the call is made with a configured webhook and one text
InitSend ==
    /\ RunIdle
    /\ V2Idle
    /\ message_text \in Documents
    /\ remaining_message = <<>>
    /\ message_index = 0
    /\ overall_success = TRUE
    /\ sent_any_chunk = FALSE
    /\ posted = <<>>
    /\ send_pc = "called"
    /\ send_result = FALSE
    /\ LoadIdle
    /\ ScrapeIdle

\* entry of the function: an empty text is refused, otherwise the loop starts
SendCall ==
    /\ send_pc = "called"
    /\ IF message_text = <<>>
       THEN /\ send_result' = FALSE
            /\ send_pc' = "returned"
            /\ UNCHANGED remaining_message
       ELSE /\ remaining_message' =
                  IF variant = "local" THEN strip(message_text) ELSE message_text
            /\ send_pc' = "loop"
            /\ UNCHANGED send_result
    /\ UNCHANGED <<message_text, message_index, overall_success, sent_any_chunk, posted>>
    /\ UNCHANGED <<runVars, loadVars, scrapeVars, v2Vars>>

\* funpay_scraper_local.py: one turn of the while loop
SendChunkLocalNoBreak(accepted) ==
    /\ variant = "local"
    /\ send_pc = "loop"
    /\ remaining_message # <<>>
    /\ LET index == message_index + 1
           final_chunk == FinalChunkLocal(remaining_message, index)
       IN  /\ message_index' = index
           /\ remaining_message' = SplitChunk(remaining_message).remaining_message
           /\ IF strip(final_chunk) = <<>>
              THEN UNCHANGED <<posted, sent_any_chunk, overall_success, send_pc>>
              ELSE /\ posted' = Append(posted, [content |-> final_chunk,
                                                accepted |-> accepted])
                   /\ IF accepted
                      THEN /\ sent_any_chunk' = TRUE
                           /\ UNCHANGED <<overall_success, send_pc>>
                      ELSE /\ overall_success' = FALSE
                           /\ UNCHANGED <<sent_any_chunk, send_pc>>
    /\ UNCHANGED <<message_text, send_result>>
    /\ UNCHANGED <<runVars, loadVars, scrapeVars, v2Vars>>

SendChunkLocal(accepted) ==
    /\ variant = "local"
    /\ send_pc = "loop"
    /\ remaining_message # <<>>
    /\ LET index == message_index + 1
           final_chunk == FinalChunkLocal(remaining_message, index)
       IN  /\ message_index' = index
           /\ remaining_message' = SplitChunk(remaining_message).remaining_message
           /\ IF strip(final_chunk) = <<>>
              THEN UNCHANGED <<posted, sent_any_chunk, overall_success, send_pc>>
              ELSE /\ posted' = Append(posted, [content |-> final_chunk,
                                                accepted |-> accepted])
                   /\ IF accepted
                      THEN /\ sent_any_chunk' = TRUE
                           /\ UNCHANGED <<overall_success, send_pc>>
                      ELSE /\ overall_success' = FALSE
                           /\ send_pc' = "broke"
                           /\ UNCHANGED sent_any_chunk
    /\ UNCHANGED <<message_text, send_result>>
    /\ UNCHANGED <<runVars, loadVars, scrapeVars, v2Vars>>

\* funpay_scraper_local.py: after the loop
SendReturnLocal ==
    /\ variant = "local"
    /\ \/ send_pc = "loop" /\ remaining_message = <<>>
       \/ send_pc = "broke"
    /\ send_result' = IF ~sent_any_chunk /\ message_index > 0 THEN FALSE
                      ELSE overall_success
    /\ send_pc' = "returned"
    /\ UNCHANGED <<message_text, remaining_message, message_index, overall_success,
                   sent_any_chunk, posted>>
    /\ UNCHANGED <<runVars, loadVars, scrapeVars, v2Vars>>

\* funpay_scraper_v3.py: one turn of the while loop
SendChunkV3(accepted) ==
    /\ variant = "v3"
    /\ send_pc = "loop"
    /\ remaining_message # <<>>
    /\ message_index' = message_index + 1
    /\ remaining_message' = SplitChunk(remaining_message).remaining_message
    /\ posted' = Append(posted, [content |-> FinalChunkV3(remaining_message,
                                                          message_index + 1),
                                 accepted |-> accepted])
    /\ IF accepted
       THEN UNCHANGED <<overall_success, send_pc>>
       ELSE /\ overall_success' = FALSE
            /\ send_pc' = "broke"
    /\ UNCHANGED <<message_text, sent_any_chunk, send_result>>
    /\ UNCHANGED <<runVars, loadVars, scrapeVars, v2Vars>>

\* funpay_scraper_v3.py: after the loop
SendReturnV3 ==
    /\ variant = "v3"
    /\ \/ send_pc = "loop" /\ remaining_message = <<>>
       \/ send_pc = "broke"
    /\ send_result' = overall_success
    /\ send_pc' = "returned"
    /\ UNCHANGED <<message_text, remaining_message, message_index, overall_success,
                   sent_any_chunk, posted>>
    /\ UNCHANGED <<runVars, loadVars, scrapeVars, v2Vars>>

NextSend ==
    \/ SendCall
    \/ \E accepted \in BOOLEAN : SendChunkLocal(accepted)
    \/ SendReturnLocal
    \/ \E accepted \in BOOLEAN : SendChunkV3(accepted)
    \/ SendReturnV3

SpecSend == InitSend /\ [][NextSend]_vars

\* A step of the call, by what it does to the position and to the turn
\* counter: every step of NextSend moves one of the two, and one is possible
\* as long as the call has not returned.
CallAdvances ==
    /\ send_pc # "returned"
    /\ send_pc' \in {"loop", "broke", "returned"}
    /\ message_index' \in {message_index, message_index + 1}
    /\ send_pc' # send_pc \/ message_index' # message_index

\* The call is sequential code and waits on nothing but the post, which
\* returns or raises within its timeout of 15 seconds: a call that has not
\* returned takes its next step.
SpecSendFair == SpecSend /\ WF_<<send_pc, message_index>>(CallAdvances)

\* ------------------------------------------ one call of load_offer_state
\* JSON values as json.load returns them
JNull == [type |-> "null", v |-> 0]

JBool(b) == [type |-> "bool", v |-> IF b THEN 1 ELSE 0]

JInt(n) == [type |-> "int", v |-> n]

JFloat(n) == [type |-> "float", v |-> n]

JStr(n) == [type |-> "str", v |-> n]

JList == [type |-> "list", v |-> 0]

JObject(fields) == [type |-> "object", fields |-> fields]

\* isinstance(x, (int, float)): a Python bool is an int
IsIntOrFloat(x) == x.type \in {"bool", "int", "float"}

\* float(x)
ToFloat(x) == JFloat(x.v)

\* the values an entry of the file may have under price_usd
StoredPriceValues == {JNull, JBool(TRUE), JInt(20), JFloat(21), JStr(0)}

\* the objects an entry of the file may be: price_usd missing or any value
StoredObjects ==
    {JObject([k \in {} |-> JNull])}
        \cup {JObject([k \in {"price_usd"} |-> price]) : price \in StoredPriceValues}

StoredEntries == StoredPriceValues \cup {JList} \cup StoredObjects

\* what may be on disk: no file, a file that is not JSON, a JSON document
\* that is not an object, an object of entries keyed by id
StateFileContents ==
    {[kind |-> "missing"], [kind |-> "invalid"], [kind |-> "json", value |-> JList]}
        \cup {[kind |-> "json", value |-> JObject(entries)] :
                 entries \in UNION {[S -> StoredEntries] : S \in SUBSET Ids}}

\* funpay_scraper_local.py: the details of one entry after validation
ValidatedDetails(id, details) ==
    LET checked ==
            IF "price_usd" \notin DOMAIN details \/ details["price_usd"].type = "null"
            THEN details
            ELSE IF IsIntOrFloat(details["price_usd"])
            THEN [details EXCEPT !["price_usd"] = ToFloat(@)]
            ELSE [details EXCEPT !["price_usd"] = JNull]
    IN  [k \in DOMAIN checked \cup {"id", "last_seen_active", "notified_as_removed_at"} |->
            IF k \in DOMAIN checked THEN checked[k]
            ELSE IF k = "id" THEN JStr(id) ELSE JNull]

\* funpay_scraper_local.py: load_offer_state on any content of the file
load_content_local(content) ==
    IF content.kind # "json" THEN EmptyMap
    ELSE IF content.value.type # "object" THEN EmptyMap
    ELSE LET loaded_data == content.value.fields
         IN  [id \in {i \in DOMAIN loaded_data : loaded_data[i].type = "object"} |->
                 ValidatedDetails(id, loaded_data[id].fields)]

\* funpay_scraper_v3.py: load_offer_state on any content of the file
load_content_v3(content) ==
    IF content.kind # "json" THEN EmptyMap
    ELSE IF content.value.type # "object" THEN EmptyMap
    ELSE LET offer_state == content.value.fields
         IN  [id \in {i \in DOMAIN offer_state :
                         IsIntOrFloat(offer_state[i]) \/ offer_state[i].type = "null"} |->
                 IF IsIntOrFloat(offer_state[id]) THEN ToFloat(offer_state[id]) ELSE JNull]

InitLoad ==
    /\ RunIdle
    /\ V2Idle
    /\ SendIdle
    /\ ScrapeIdle
    /\ state_file_content \in StateFileContents
    /\ loaded_state = EmptyMap
    /\ load_pc = "called"

LoadCall ==
    /\ load_pc = "called"
    /\ loaded_state' = IF variant = "local" THEN load_content_local(state_file_content)
                       ELSE load_content_v3(state_file_content)
    /\ load_pc' = "returned"
    /\ UNCHANGED <<state_file_content, runVars, sendVars, scrapeVars, v2Vars>>

NextLoad == LoadCall

SpecLoad == InitLoad /\ [][NextLoad]_vars

\* ---------------------------------- one call of scrape_all_offers_details
\* Strings of this part are sequences of one-character strings; None is
\* PyNone where the other values are records, and the empty string where the
\* other values are strings that the code tests with "if not".
PyNone == [none |-> TRUE]

DigitChars == {"0", "1", "2", "3", "4", "5", "6", "7", "8", "9"}

DigitValue ==
    ("0" :> 0) @@ ("1" :> 1) @@ ("2" :> 2) @@ ("3" :> 3) @@ ("4" :> 4) @@ ("5" :> 5)
        @@ ("6" :> 6) @@ ("7" :> 7) @@ ("8" :> 8) @@ ("9" :> 9)

isdigit_nonempty(str) == str # <<>>

\* str.isdigit()
isdigit(str) == str # <<>> /\ \A i \in 1..Len(str) : str[i] \in DigitChars

\* The href of a listing record: no href attribute, a URL without the id
\* parameter, or a URL whose id parameter is the given string.
Hrefs ==
    {[kind |-> "none"], [kind |-> "no_id"]}
        \cup {[kind |-> "id", id |-> id] :
                 id \in {<<"1", "0", "0">>, <<"2", "0", "0">>, <<"1", "0", "x">>}}

\* extract_offer_id_from_href: the id parameter when it is all digits, else
\* None (the empty string here)
extract_offer_id_from_href(href) ==
    IF href.kind = "id" /\ isdigit(href.id) THEN href.id ELSE <<>>

\* str.replace(c, '') for every character c of chars
RECURSIVE RemoveChars(_, _)
RemoveChars(str, chars) ==
    IF str = <<>> THEN <<>>
    ELSE IF Head(str) \in chars THEN RemoveChars(Tail(str), chars)
    ELSE <<Head(str)>> \o RemoveChars(Tail(str), chars)

\* the longest prefix of str made of digits
RECURSIVE LeadingDigits(_)
LeadingDigits(str) ==
    IF str = <<>> \/ Head(str) \notin DigitChars THEN <<>>
    ELSE <<Head(str)>> \o LeadingDigits(Tail(str))

\* re.search(r'(\d+\.?\d*)', str): the first run of digits, with the point
\* and the digits that follow it when there are; None when str has no digit
RECURSIVE price_match(_)
price_match(str) ==
    IF str = <<>> THEN PyNone
    ELSE IF Head(str) \notin DigitChars THEN price_match(Tail(str))
    ELSE LET whole == LeadingDigits(str)
             after == SubSeq(str, Len(whole) + 1, Len(str))
         IN  IF after # <<>> /\ Head(after) = "."
             THEN [whole |-> whole, frac |-> LeadingDigits(Tail(after))]
             ELSE [whole |-> whole, frac |-> <<>>]

\* the number written by a string of digits
RECURSIVE DecimalValue(_)
DecimalValue(digits) ==
    IF digits = <<>> THEN 0
    ELSE 10 * DecimalValue(SubSeq(digits, 1, Len(digits) - 1)) + DigitValue[digits[Len(digits)]]

\* digits without their trailing zeros
RECURSIVE SignificantFraction(_)
SignificantFraction(digits) ==
    IF digits = <<>> THEN <<>>
    ELSE IF digits[Len(digits)] = "0"
    THEN SignificantFraction(SubSeq(digits, 1, Len(digits) - 1))
    ELSE digits

\* float(price_match.group(1)): the whole part and the fractional digits
ParsedFloat(match) ==
    [whole |-> DecimalValue(match.whole), frac |-> SignificantFraction(match.frac)]

\* price_usd of a record: the currency symbols, the spaces and the commas
\* are removed from price_text, then the first number is taken
PriceOfText(price_text) ==
    LET cleaned_price_text == RemoveChars(RemoveChars(price_text, {"$"}), {" ", ","})
    IN  IF price_match(cleaned_price_text) = PyNone THEN PyNone
        ELSE ParsedFloat(price_match(cleaned_price_text))

PriceTexts ==
    {<<"$", "1", "9">>, <<"2", "0", ".", "5", "0", " ", "$">>, <<"1", ",", "0", "0", "0">>,
     <<"N", "/", "A">>}

ListingRecords == [href : Hrefs, price_text : PriceTexts]

\* all_offers_details[offer_id] = {...} on the dict kept in insertion order
PutOffer(details, offer) ==
    IF \E j \in 1..Len(details) : details[j].id = offer.id
    THEN [j \in 1..Len(details) |-> IF details[j].id = offer.id THEN offer ELSE details[j]]
    ELSE Append(details, offer)

\* the loop over offer_containers, from record i
RECURSIVE ExtractFrom(_, _, _)
ExtractFrom(containers, i, details) ==
    IF i > Len(containers) THEN details
    ELSE LET offer_id == extract_offer_id_from_href(containers[i].href)
         IN  IF offer_id = <<>> THEN ExtractFrom(containers, i + 1, details)
             ELSE ExtractFrom(containers, i + 1,
                      PutOffer(details, [id |-> offer_id,
                                         price_usd |-> PriceOfText(containers[i].price_text)]))

\* the pages: up to MaxPageRecords records, one record at most for an offer id
Pages ==
    {page \in UNION {[1..k -> ListingRecords] : k \in 0..MaxPageRecords} :
        \A i, j \in 1..Len(page) :
            (i # j /\ page[i].href.kind = "id" /\ page[j].href.kind = "id")
                => page[i].href.id # page[j].href.id}

InitScrape ==
    /\ RunIdle
    /\ V2Idle
    /\ SendIdle
    /\ LoadIdle
    /\ offer_containers \in Pages
    /\ all_offers_details = <<>>
    /\ scrape_pc = "called"

\* the page is fetched and every record is gone through
ScrapeCall ==
    /\ scrape_pc = "called"
    /\ all_offers_details' = ExtractFrom(offer_containers, 1, <<>>)
    /\ scrape_pc' = "returned"
    /\ UNCHANGED <<offer_containers, runVars, sendVars, loadVars, v2Vars>>

\* the request fails: None is returned
ScrapeRaises ==
    /\ scrape_pc = "called"
    /\ scrape_pc' = "failed"
    /\ UNCHANGED <<offer_containers, all_offers_details, runVars, sendVars, loadVars, v2Vars>>

NextScrape == ScrapeCall \/ ScrapeRaises

SpecScrape == InitScrape /\ [][NextScrape]_vars

\* ================================================== funpay_scraper_v2.py
\* Offer ids are digit strings; a line of the processed-ids file is any
\* string.  The files a first run can find: none or an empty one, one with
\* a line that is no id, one with an id between blanks.
V2Ids == {<<"1">>, <<"2">>}

InitialProcessedFiles == {<<>>, << <<"x">> >>, << <<" ", "1", " ">> >>}

\* line.strip(), for the blanks of a line
RECURSIVE StripLeft(_)
StripLeft(line) ==
    IF line # <<>> /\ Head(line) = " " THEN StripLeft(Tail(line)) ELSE line

RECURSIVE StripRight(_)
StripRight(line) ==
    IF line # <<>> /\ line[Len(line)] = " "
    THEN StripRight(SubSeq(line, 1, Len(line) - 1))
    ELSE line

StripLine(line) == StripRight(StripLeft(line))

\* load_processed_ids: the stripped lines made of digits; the empty set
\* when the file cannot be read
load_processed_ids(file, readable) ==
    IF readable
    THEN {StripLine(file[i]) : i \in {j \in 1..Len(file) : isdigit(StripLine(file[j]))}}
    ELSE {}

\* append_processed_ids: one line per id, in the iteration order of the
\* set; nothing is added when the file cannot be opened
append_processed_ids(file, new_ids, writable) ==
    IF new_ids = <<>> \/ ~writable THEN file ELSE file \o new_ids

InitV2 ==
    /\ RunIdle
    /\ SendIdle
    /\ LoadIdle
    /\ ScrapeIdle
    /\ processed_ids_file \in InitialProcessedFiles
    /\ processed_ids_set = {}
    /\ current_scraped_ids = {}
    /\ new_offer_ids = {}
    /\ notification_sent = FALSE
    /\ v2_pc = "idle"
    /\ v2_runs = 0
    /\ unnotified_ids = {}

\* a new invocation; it exits at once without the Telegram credentials
V2Start(credentials) ==
    /\ v2_pc \in {"idle", "finished", "exit"}
    /\ v2_runs < MaxRuns
    /\ v2_runs' = v2_runs + 1
    /\ v2_pc' = IF credentials THEN "started" ELSE "exit"
    /\ processed_ids_set' = {}
    /\ current_scraped_ids' = {}
    /\ new_offer_ids' = {}
    /\ notification_sent' = FALSE
    /\ UNCHANGED <<processed_ids_file, unnotified_ids, runVars, sendVars, loadVars, scrapeVars>>

\* 1. load the processed ids
V2Load(readable) ==
    /\ v2_pc = "started"
    /\ processed_ids_set' = load_processed_ids(processed_ids_file, readable)
    /\ v2_pc' = "loaded"
    /\ UNCHANGED <<processed_ids_file, current_scraped_ids, new_offer_ids, notification_sent,
                   v2_runs, unnotified_ids, runVars, sendVars, loadVars, scrapeVars>>

\* 2. the scrape returned None: sys.exit
V2ScrapeFailed ==
    /\ v2_pc = "loaded"
    /\ v2_pc' = "exit"
    /\ UNCHANGED <<processed_ids_file, processed_ids_set, current_scraped_ids, new_offer_ids,
                   notification_sent, v2_runs, unnotified_ids,
                   runVars, sendVars, loadVars, scrapeVars>>

\* 3. the scrape returned a dict: the new ids are the set difference
V2Identify(scraped) ==
    /\ v2_pc = "loaded"
    /\ current_scraped_ids' = scraped
    /\ new_offer_ids' = scraped \ processed_ids_set
    /\ v2_pc' = "identified"
    /\ UNCHANGED <<processed_ids_file, processed_ids_set, notification_sent, v2_runs,
                   unnotified_ids, runVars, sendVars, loadVars, scrapeVars>>

\* no new id: nothing is sent, nothing is written
V2NoNewOffers ==
    /\ v2_pc = "identified"
    /\ new_offer_ids = {}
    /\ v2_pc' = "finished"
    /\ unnotified_ids' = {}
    /\ UNCHANGED <<processed_ids_file, processed_ids_set, current_scraped_ids, new_offer_ids,
                   notification_sent, v2_runs, runVars, sendVars, loadVars, scrapeVars>>

\* 4. send_telegram_notification for the new offers
V2Notify(ok) ==
    /\ v2_pc = "identified"
    /\ new_offer_ids # {}
    /\ notification_sent' = ok
    /\ v2_pc' = "notified"
    /\ unnotified_ids' =
           IF ok THEN {}
           ELSE new_offer_ids \ load_processed_ids(processed_ids_file, TRUE)
    /\ UNCHANGED <<processed_ids_file, processed_ids_set, current_scraped_ids, new_offer_ids,
                   v2_runs, runVars, sendVars, loadVars, scrapeVars>>

\* 5. the processed-ids file is updated only if the notification was sent
V2UpdateProcessedAlways(new_ids, writable) ==
    /\ v2_pc = "notified"
    /\ new_ids \in Orderings(new_offer_ids)
    /\ processed_ids_file' = append_processed_ids(processed_ids_file, new_ids, writable)
    /\ v2_pc' = "finished"
    /\ UNCHANGED <<processed_ids_set, current_scraped_ids, new_offer_ids, notification_sent,
                   v2_runs, unnotified_ids, runVars, sendVars, loadVars, scrapeVars>>

V2UpdateProcessed(new_ids, writable) ==
    /\ v2_pc = "notified"
    /\ new_ids \in Orderings(new_offer_ids)
    /\ processed_ids_file' =
           IF notification_sent
           THEN append_processed_ids(processed_ids_file, new_ids, writable)
           ELSE processed_ids_file
    /\ v2_pc' = "finished"
    /\ UNCHANGED <<processed_ids_set, current_scraped_ids, new_offer_ids, notification_sent,
                   v2_runs, unnotified_ids, runVars, sendVars, loadVars, scrapeVars>>

NextV2 ==
    \/ \E credentials \in BOOLEAN : V2Start(credentials)
    \/ \E readable \in BOOLEAN : V2Load(readable)
    \/ V2ScrapeFailed
    \/ \E scraped \in SUBSET V2Ids : V2Identify(scraped)
    \/ V2NoNewOffers
    \/ \E ok \in BOOLEAN : V2Notify(ok)
    \/ \E new_ids \in UNION {Orderings(S) : S \in SUBSET V2Ids}, writable \in BOOLEAN :
          V2UpdateProcessed(new_ids, writable)

SpecV2 == InitV2 /\ [][NextV2]_vars

\* ================================================================ claims
\* positions of a run, by what has been done
AfterLoops == {"removed_done", "sorted", "formatted", "discord_done", "dispatched"}

AfterSort == {"sorted", "formatted", "discord_done", "dispatched", "done"}

AfterScrapedLoop == AfterLoops \cup {"reconciled", "done"}

StoredPrice(snapshot, id) ==
    IF variant = "local" THEN Get(snapshot[id], "price_usd") ELSE snapshot[id]

StoredMarker(snapshot, id) ==
    IF variant = "local" THEN Get(snapshot[id], "notified_as_removed_at") ELSE None

\* what a snapshot says of each id: its price and its removal marker
SnapshotView(snapshot) ==
    [id \in DOMAIN snapshot |->
        [price |-> StoredPrice(snapshot, id), marker |-> StoredMarker(snapshot, id)]]

\* ---------------------------------------------------------------- C1
\* C1: removal notify-once (funpay_scraper_local.py).  After the removed loop
\* of a run, an id of the loaded snapshot that is absent from the scrape is in
\* the removed list exactly when it was not already absent in the last run
\* whose save succeeded: reported in the first run of an absence, silent in
\* the following runs of the same absence.
C1_RemovalNotifyOnce ==
    (variant = "local" /\ pc \in AfterLoops) =>
        \A id \in DOMAIN previous_offer_state \ scraped_offer_ids :
            (id \in IdsOf(removed_offers_notify)) <=> (id \notin absentBefore)

C1_Witness ==
    /\ variant = "local"
    /\ pc = "removed_done"
    /\ \E id \in absentBefore \cap (DOMAIN previous_offer_state \ scraped_offer_ids) :
          id \notin IdsOf(removed_offers_notify)

\* ---------------------------------------------------------------- C2
\* scraped offers whose price has decreased by at most the threshold
SuppressedDecreases ==
    {i \in 1..Len(current_offers_scrape_dict) :
        LET o == current_offers_scrape_dict[i]
        IN  /\ o.id \in DOMAIN previous_offer_state
            /\ o.price_usd # None
            /\ StoredPrice(previous_offer_state, o.id) # None
            /\ o.price_usd < StoredPrice(previous_offer_state, o.id)
            /\ ~ExceedsThreshold(percent_decrease(
                    StoredPrice(previous_offer_state, o.id), o.price_usd))}

UnchangedInput(snapshot) ==
    /\ DOMAIN snapshot = IdsOf(current_offers_scrape_dict)
    /\ \A i \in 1..Len(current_offers_scrape_dict) :
          /\ StoredPrice(snapshot, current_offers_scrape_dict[i].id)
                = current_offers_scrape_dict[i].price_usd
          /\ StoredMarker(snapshot, current_offers_scrape_dict[i].id) = None

\* the loop over the scraped offers, applied to a snapshot at time ts
ReconcileAgain(snapshot, ts) ==
    IF variant = "local"
    THEN LocalLoop(snapshot, [next |-> snapshot, new |-> <<>>, disc |-> <<>>],
                   current_offers_scrape_dict, 1, ts)
    ELSE V3Loop(snapshot, [next |-> EmptyMap, new |-> <<>>, disc |-> <<>>],
                current_offers_scrape_dict, 1)

NoChangeReported ==
    /\ new_offers_notify = <<>>
    /\ discounted_offers_notify = <<>>
    /\ removed_offers_notify = <<>>
    /\ removed_offer_count = 0

\* C3 as stated: on unchanged input the lists are empty and the next snapshot
\* is equal to the previous one, and again so when run on that result.
C3_NextSnapshotEqualsPrevious ==
    (pc \in AfterLoops /\ UnchangedInput(previous_offer_state)) =>
        /\ NoChangeReported
        /\ next_offer_state = previous_offer_state
        /\ LET again == ReconcileAgain(next_offer_state, now + 1)
           IN  again.new = <<>> /\ again.disc = <<>> /\ again.next = next_offer_state

\* C3 amended: on unchanged input the lists are empty and the next snapshot
\* has the ids, prices and removal markers of the previous one (in
\* funpay_scraper_local.py last_seen_active of every entry becomes the run's
\* timestamp, in funpay_scraper_v3.py the two snapshots are equal); running
\* it again on that result yields the same.
C3_UnchangedInputKeepsPricesAndMarkers ==
    (pc \in AfterLoops /\ UnchangedInput(previous_offer_state)) =>
        /\ NoChangeReported
        /\ SnapshotView(next_offer_state) = SnapshotView(previous_offer_state)
        /\ variant = "v3" => next_offer_state = previous_offer_state
        /\ variant = "local" =>
              \A id \in DOMAIN next_offer_state : next_offer_state[id].last_seen_active = now
        /\ UnchangedInput(next_offer_state)
        /\ LET again == ReconcileAgain(next_offer_state, now + 1)
           IN  /\ again.new = <<>>
               /\ again.disc = <<>>
               /\ DOMAIN next_offer_state \ IdsOf(current_offers_scrape_dict) = {}
               /\ SnapshotView(again.next) = SnapshotView(next_offer_state)

C3_Witness ==
    /\ variant = "local"
    /\ pc = "removed_done"
    /\ Cardinality(DOMAIN previous_offer_state) = 2
    /\ UnchangedInput(previous_offer_state)
    /\ \E id \in DOMAIN previous_offer_state : previous_offer_state[id].price_usd = None
    /\ \E id \in DOMAIN previous_offer_state : previous_offer_state[id].price_usd # None

\* ---------------------------------------------------------------- C4
\* C4: new-offer detection.  After the loops of a run, every id of the scrape
\* that is not in the loaded snapshot is exactly once in the new list and is
\* not in the removed list.
C4_NewOfferOnce ==
    pc \in AfterLoops \cup {"done"} =>
        \A id \in scraped_offer_ids \ DOMAIN previous_offer_state :
            /\ Occurrences(new_offers_notify, id) = 1
            /\ id \notin IdsOf(removed_offers_notify)

C4_Witness ==
    /\ variant = "local"
    /\ pc = "removed_done"
    /\ scraped_offer_ids \ DOMAIN previous_offer_state # {}
    /\ removed_offers_notify # <<>>

\* ---------------------------------------------------------------- C5
\* C5: reappearance resets the removal flag (funpay_scraper_local.py).  A
\* scraped id whose loaded entry carries a marker has a null marker in the
\* next snapshot, and once that snapshot is saved a later absence of the id
\* is reported as removed again.
C5_ReappearanceResetsMarker ==
    variant = "local" =>
        /\ pc \in AfterScrapedLoop =>
              \A id \in scraped_offer_ids \cap DOMAIN previous_offer_state :
                  StoredMarker(previous_offer_state, id) # None
                      => StoredMarker(next_offer_state, id) = None
        /\ pc \in AfterLoops =>
              \A id \in reappearedBefore \cap (DOMAIN previous_offer_state \ scraped_offer_ids) :
                  id \in IdsOf(removed_offers_notify)

C5_Witness ==
    /\ variant = "local"
    /\ pc = "removed_done"
    /\ \E id \in reappearedBefore \cap (DOMAIN previous_offer_state \ scraped_offer_ids) :
          id \in IdsOf(removed_offers_notify)

\* ---------------------------------------------------------------- C6
\* non-decreasing by price, every entry without a price behind the priced ones
SortedAbsentLast(list) ==
    \A i, j \in 1..Len(list) :
        i < j =>
            \/ Get(list[j], "price_usd") = None
            \/ /\ Get(list[i], "price_usd") # None
               /\ Get(list[i], "price_usd") <= Get(list[j], "price_usd")

\* C6: sorting.  The sort step completes for every combination of priced and
\* price-absent offers, and after it each of the new, discounted and removed
\* lists is non-decreasing by price with the price-absent entries last.
C6_SortedAbsentLast ==
    /\ pc # "crashed"
    /\ pc \in AfterSort =>
          /\ SortedAbsentLast(new_offers_notify)
          /\ SortedAbsentLast(discounted_offers_notify)
          /\ SortedAbsentLast(removed_offers_notify)

\* ---------------------------------------------------------------- C7
ReportsRemoval(message) ==
    \E i \in 1..Len(message) : message[i].kind \in {"also_removed", "only_removed"}

\* C7: zero-listing scrape.  When the scrape succeeds with zero listings and
\* the loaded snapshot is not empty, no tracked offer is reported as removed
\* and the persisted snapshot is not replaced by an empty one.
C7_ZeroListingKeepsSnapshot ==
    (/\ pc \in AfterLoops \cup {"done"}
     /\ current_offers_scrape_dict = <<>>
     /\ DOMAIN previous_offer_state # {}) =>
        /\ removed_offers_notify = <<>>
        /\ ~ReportsRemoval(full_message)
        /\ stateFile # EmptyMap

\* ---------------------------------------------------------------- C8
\* C8: hard failure leaves state untouched.  A run that exits for missing
\* credentials or a failed fetch has made no write to the state file, leaves
\* the file as it is and has attempted no delivery.
C8_HardFailureWritesNothing ==
    [][pc' = "exit" => (writes' = 0 /\ attempts' = <<>> /\ stateFile' = stateFile)]_vars

C8_Witness ==
    /\ pc = "exit"
    /\ notify_via_discord
    /\ previous_offer_state # EmptyMap
    /\ stateFile # EmptyMap

\* ---------------------------------------------------------------- C9
\* C9: dispatcher priority order (funpay_scraper_local.py).  For a non-empty
\* document Discord is attempted first whenever it is configured, Telegram
\* only when Discord is not configured or has returned failure, and nothing
\* is attempted after a success.
C9_DispatchPriorityOrder ==
    variant = "local" =>
        /\ \A i \in 1..Len(attempts) :
              attempts[i].backend = "discord" => (i = 1 /\ notify_via_discord)
        /\ \A i \in 1..Len(attempts) :
              attempts[i].backend = "telegram" =>
                  \/ ~notify_via_discord
                  \/ \E j \in 1..(i - 1) : attempts[j] = [backend |-> "discord", ok |-> FALSE]
        /\ \A i \in 1..(Len(attempts) - 1) : ~attempts[i].ok
        /\ (pc \in {"discord_done", "dispatched", "done"}
               /\ full_message # <<>> /\ notify_via_discord) => Attempted("discord")

C9_Witness ==
    /\ variant = "local"
    /\ pc = "dispatched"
    /\ notify_via_discord
    /\ notify_via_telegram
    /\ attempts = <<[backend |-> "discord", ok |-> TRUE]>>

\* --------------------------------------------------------------- C10
\* C10: fallback on delivery failure.  In funpay_scraper_local.py and in
\* funpay_scraper_v3.py, when both backends are configured and the Discord
\* delivery has failed, Telegram is attempted in the same run.
C10_TelegramFallback ==
    (/\ pc \in {"dispatched", "done"}
     /\ notify_via_discord
     /\ notify_via_telegram
     /\ discord_attempted_and_failed) => Attempted("telegram")

C12_PayloadWithinLimit ==
    \A i \in 1..Len(posted) : StrLen(posted[i].content) <= DISCORD_MAX_MSG_LENGTH

\* --------------------------------------------------------------- C13
\* ids the next run of funpay_scraper_local.py would report when it loads
\* snapshot and scrapes the same page again
ReportedAgain(snapshot) ==
    LET loaded == load_offer_state("local", snapshot, FALSE)
        again  == ReconcileAgain(loaded, now + 1)
    IN  IdsOf(again.new) \cup IdsOf(again.disc)
            \cup {id \in DOMAIN loaded \ scraped_offer_ids :
                     Get(loaded[id], "notified_as_removed_at") = None}

\* C13: state saved despite delivery failure (funpay_scraper_local.py).  Every
\* run whose scrape succeeds saves the next snapshot, whether the backends
\* succeeded or failed; once it is saved, the next run on the same page
\* reports nothing again, also when every delivery had failed.
C13_SavedWhateverDelivery ==
    variant = "local" =>
        /\ pc # "crashed"
        /\ pc = "done" => writes = 1
        /\ (pc = "done" /\ stateFile = next_offer_state) => ReportedAgain(stateFile) = {}

\* --------------------------------------------------------------- C14
\* what the running run reports: the ids of its lists (the count of removed
\* ids in funpay_scraper_v3.py)
ReportedNow ==
    [new |-> IdsOf(new_offers_notify),
     disc |-> IdsOf(discounted_offers_notify),
     removed |-> IF variant = "local" THEN IdsOf(removed_offers_notify)
                 ELSE removed_offer_count]

\* what the next run reports when it reads file and scrapes the same page
ReportedFrom(file, truncated) ==
    LET loaded == load_offer_state(variant, file, truncated)
        again  == ReconcileAgain(loaded, now + 1)
        gone   == DOMAIN loaded \ scraped_offer_ids
    IN  [new |-> IdsOf(again.new),
         disc |-> IdsOf(again.disc),
         removed |-> IF variant = "local"
                     THEN {id \in gone : Get(loaded[id], "notified_as_removed_at") = None}
                     ELSE Cardinality(gone)]

\* C14: persistence write failure.  When save_offer_state fails, the run goes
\* on to its end without a second write, the state file remains the one
\* loaded at the start of the run, and the next run on the same page reports
\* again the same new, discounted and removed offers.
C14_FailedSaveKeepsSnapshot ==
    [][(pc = "dispatched" /\ pc' = "done" /\ saveOutcome' \in {"untouched", "truncated"}) =>
          /\ writes' = 1
          /\ load_offer_state(variant, stateFile', stateFileTruncated')
                = load_offer_state(variant, stateFile, stateFileTruncated)
          /\ ReportedFrom(stateFile', stateFileTruncated') = ReportedNow]_vars

\* --------------------------------------------------------------- C15
\* a JSON number
IsNumber(x) == x.type \in {"int", "float"}

\* the shape an entry must have: an object with the offer's details in
\* funpay_scraper_local.py, a price (a number or null) in funpay_scraper_v3.py
CompatibleShape(entry) ==
    IF variant = "local" THEN entry.type = "object"
    ELSE IsNumber(entry) \/ entry.type = "null"

\* the price an entry of the file carries, JNull when it carries none
PriceOfEntry(entry) ==
    IF variant = "v3" THEN entry
    ELSE IF "price_usd" \in DOMAIN entry.fields THEN entry.fields["price_usd"] ELSE JNull

\* the price of a loaded entry, JNull when it has none
PriceOfLoaded(value) ==
    IF variant = "v3" THEN value
    ELSE IF "price_usd" \in DOMAIN value THEN value["price_usd"] ELSE JNull

\* C15: robust state loading.  load_offer_state returns the empty mapping
\* when the file is missing or is not a JSON object; otherwise it returns
\* exactly the entries whose value has the compatible shape, entry by entry,
\* and every numeric price comes back as a float of the same value.
C15_LoadKeepsWellFormedEntries ==
    load_pc = "returned" =>
        IF state_file_content.kind # "json" \/ state_file_content.value.type # "object"
        THEN loaded_state = EmptyMap
        ELSE LET entries == state_file_content.value.fields
             IN  /\ DOMAIN loaded_state = {id \in DOMAIN entries : CompatibleShape(entries[id])}
                 /\ \A id \in DOMAIN loaded_state :
                       IF IsNumber(PriceOfEntry(entries[id]))
                       THEN PriceOfLoaded(loaded_state[id])
                                = JFloat(PriceOfEntry(entries[id]).v)
                       ELSE IF PriceOfEntry(entries[id]).type = "null"
                       THEN PriceOfLoaded(loaded_state[id]) = JNull
                       ELSE TRUE

\* --------------------------------------------------------------- C16
\* the record's link carries an id made of digits only
HasNumericId(rec) ==
    /\ rec.href.kind = "id"
    /\ Len(rec.href.id) > 0
    /\ \A i \in 1..Len(rec.href.id) : rec.href.id[i] \in DigitChars

\* the price a price text of PriceTexts shows, PyNone when it shows none
ShownPrice(price_text) ==
    CASE price_text = <<"$", "1", "9">> -> [whole |-> 19, frac |-> <<>>]
      [] price_text = <<"2", "0", ".", "5", "0", " ", "$">> -> [whole |-> 20, frac |-> <<"5">>]
      [] price_text = <<"1", ",", "0", "0", "0">> -> [whole |-> 1000, frac |-> <<>>]
      [] OTHER -> PyNone

\* C16: extractor tolerates bad records.  The scrape result holds, in page
\* order, exactly the records whose id is purely numeric: a record without a
\* parsable price is kept with its price absent, a record whose id is missing
\* or not purely numeric is left out, and every other record is extracted
\* with its price.
C16_BadRecordsIsolated ==
    scrape_pc = "returned" =>
        LET kept == SelectSeq(offer_containers, HasNumericId)
        IN  /\ Len(all_offers_details) = Len(kept)
            /\ \A j \in 1..Len(kept) :
                  /\ all_offers_details[j].id = kept[j].href.id
                  /\ all_offers_details[j].price_usd = ShownPrice(kept[j].price_text)

C16_Witness ==
    /\ scrape_pc = "returned"
    /\ Len(offer_containers) = 3
    /\ Len(all_offers_details) = 2
    /\ \E i \in 1..3 : offer_containers[i].href.kind = "id" /\ ~HasNumericId(offer_containers[i])
    /\ \E j \in 1..2 : all_offers_details[j].price_usd = PyNone
    /\ \E j \in 1..2 : all_offers_details[j].price_usd # PyNone

\* --------------------------------------------------------------- C17
\* scraped offers that the loaded snapshot knows without a removal marker
KnownActive ==
    {i \in 1..Len(current_offers_scrape_dict) :
        /\ current_offers_scrape_dict[i].id \in DOMAIN previous_offer_state
        /\ StoredMarker(previous_offer_state, current_offers_scrape_dict[i].id) = None}

NotifiedIds ==
    IdsOf(new_offers_notify) \cup IdsOf(discounted_offers_notify)
        \cup IdsOf(removed_offers_notify)

\* C17 as stated: for an id known without a removal marker and present in the
\* scrape, when exactly one of the stored and the current price is absent, or
\* the two prices are equal, the id is in no notification list.
C17_OneSidedPriceSilent ==
    pc \in AfterScrapedLoop =>
        \A i \in KnownActive :
            LET o == current_offers_scrape_dict[i]
                last_price == StoredPrice(previous_offer_state, o.id)
            IN  (\/ (last_price = None) # (o.price_usd = None)
                 \/ last_price = o.price_usd) => o.id \notin NotifiedIds

\* C17 amended: when the current price is absent and the stored one present,
\* or the two prices are equal (both absent included), the id is in no
\* notification list; when the stored price is absent and the current one
\* present, the id is in the new list, once, and in no other list.
C17_PriceAppearedIsNew ==
    pc \in AfterScrapedLoop =>
        \A i \in KnownActive :
            LET o == current_offers_scrape_dict[i]
                last_price == StoredPrice(previous_offer_state, o.id)
            IN  /\ ((o.price_usd = None /\ last_price # None) \/ last_price = o.price_usd)
                      => o.id \notin NotifiedIds
                /\ (last_price = None /\ o.price_usd # None)
                      => /\ Occurrences(new_offers_notify, o.id) = 1
                         /\ o.id \notin IdsOf(discounted_offers_notify)
                         /\ o.id \notin IdsOf(removed_offers_notify)

C17_Witness ==
    /\ pc = "reconciled"
    /\ \E i, j \in KnownActive :
          /\ StoredPrice(previous_offer_state, current_offers_scrape_dict[i].id) = None
          /\ current_offers_scrape_dict[i].price_usd # None
          /\ current_offers_scrape_dict[i].id \in IdsOf(new_offers_notify)
          /\ StoredPrice(previous_offer_state, current_offers_scrape_dict[j].id) # None
          /\ current_offers_scrape_dict[j].price_usd = None
          /\ current_offers_scrape_dict[j].id \notin NotifiedIds

\* --------------------------------------------------------------- C18
\* C18: write ordering.  The state file is written at most once per run, and
\* only by the save that follows the classification of every scraped offer
\* and of every removed id: a step changes the file or counts a write only
\* when it is that save, made from the dispatched position with no write yet;
\* no step of the reconciliation does.
C18_SingleWriteAfterReconciliation ==
    [][(\/ stateFile' # stateFile
        \/ stateFileTruncated' # stateFileTruncated
        \/ writes' > writes
        \/ saveOutcome' \notin {saveOutcome, "none"})
          => /\ pc = "dispatched"
             /\ pc' = "done"
             /\ writes = 0
             /\ writes' = 1
             /\ scraped_offer_ids = IdsOf(current_offers_scrape_dict)
             /\ DOMAIN next_offer_state
                   = IF variant = "local"
                     THEN DOMAIN previous_offer_state \cup scraped_offer_ids
                     ELSE scraped_offer_ids]_vars

C18_Witness ==
    /\ pc = "done"
    /\ writes = 1
    /\ saveOutcome = "written"
    /\ stateFile = next_offer_state
    /\ new_offers_notify # <<>>
    /\ removed_offers_notify # <<>> \/ removed_offer_count > 0

\* --------------------------------------------------------------- C19
\* C19: nothing to send.  When the new, discounted and removed lists of a
\* run are all empty (in funpay_scraper_v3.py: the two lists and the removed
\* count), the formatted document is the empty string and no delivery
\* backend is called in that run.
C19_NothingToSend ==
    (pc \in {"formatted", "discord_done", "dispatched", "done"} /\ NoChangeReported) =>
        /\ full_message = <<>>
        /\ attempts = <<>>
        /\ ~any_notification_platform_succeeded

C19_Witness ==
    /\ pc = "done"
    /\ NoChangeReported
    /\ current_offers_scrape_dict # <<>>
    /\ notify_via_discord
    /\ notify_via_telegram
    /\ full_message = <<>>
    /\ attempts = <<>>

\* --------------------------------------------------------------- C20
\* the scraped price of id, None when id is not in the scrape
ScrapedPrice(id) ==
    IF \E i \in 1..Len(current_offers_scrape_dict) : current_offers_scrape_dict[i].id = id
    THEN (CHOOSE o \in {current_offers_scrape_dict[i] :
                            i \in 1..Len(current_offers_scrape_dict)} : o.id = id).price_usd
    ELSE None

\* id is in both snapshots with two prices, the stored one positive, the
\* current one lower by more than 5 percent of the stored one
DroppedOverThreshold(id) ==
    /\ id \in DOMAIN previous_offer_state
    /\ id \in IdsOf(current_offers_scrape_dict)
    /\ ScrapedPrice(id) # None
    /\ StoredPrice(previous_offer_state, id) # None
    /\ StoredPrice(previous_offer_state, id) > 0
    /\ ScrapedPrice(id) < StoredPrice(previous_offer_state, id)
    /\ (StoredPrice(previous_offer_state, id) - ScrapedPrice(id)) * 100
          > 5 * StoredPrice(previous_offer_state, id)

\* C20: price-decrease classification.  An id is in the discounted list, once,
\* with the stored price as last_price and the percentage drop attached,
\* exactly when it is in the previous snapshot and in the scrape, both prices
\* are present, the stored price is positive, the current price is lower and
\* the drop is strictly above the threshold; a drop equal to the threshold is
\* not classified.
C20_DiscountedIffOverThreshold ==
    pc \in AfterScrapedLoop =>
        /\ \A id \in Ids : (id \in IdsOf(discounted_offers_notify)) <=> DroppedOverThreshold(id)
        /\ \A k \in 1..Len(discounted_offers_notify) :
              LET d == discounted_offers_notify[k]
              IN  /\ Occurrences(discounted_offers_notify, d.id) = 1
                  /\ d.price_usd = ScrapedPrice(d.id)
                  /\ d.last_price = StoredPrice(previous_offer_state, d.id)
                  /\ d.discount_percent.num = (d.last_price - d.price_usd) * 100
                  /\ d.discount_percent.den = d.last_price

C20_Witness ==
    /\ pc = "removed_done"
    /\ \E a, b \in DOMAIN previous_offer_state :
          /\ StoredPrice(previous_offer_state, a) = 21
          /\ ScrapedPrice(a) = 19
          /\ a \in IdsOf(discounted_offers_notify)
          /\ StoredPrice(previous_offer_state, b) = 20
          /\ ScrapedPrice(b) = 19
          /\ b \notin IdsOf(discounted_offers_notify)

\* --------------------------------------------------------------- C21
\* C21: snapshot keys never shrink (funpay_scraper_local.py).  The next
\* snapshot has the ids of the loaded snapshot and of the scrape; an entry
\* absent from the scrape keeps every stored field but the removal marker;
\* after a successful save the file is the next snapshot, so every id that
\* was loaded is still stored.
C21_SnapshotKeysNeverShrink ==
    variant = "local" =>
        /\ pc \in (AfterLoops \cup {"reconciled"}) =>
              LET loaded == load_offer_state("local", stateFile, stateFileTruncated)
              IN  /\ DOMAIN next_offer_state
                        = DOMAIN loaded \cup IdsOf(current_offers_scrape_dict)
                  /\ \A id \in DOMAIN loaded \ IdsOf(current_offers_scrape_dict) :
                        /\ DOMAIN next_offer_state[id] = DOMAIN loaded[id]
                        /\ \A k \in DOMAIN loaded[id] \ {"notified_as_removed_at"} :
                              next_offer_state[id][k] = loaded[id][k]
        /\ (pc = "done" /\ saveOutcome = "written") =>
              /\ stateFile = next_offer_state
              /\ DOMAIN previous_offer_state \subseteq DOMAIN stateFile

C21_Witness ==
    /\ variant = "local"
    /\ pc = "done"
    /\ saveOutcome = "written"
    /\ current_offers_scrape_dict # <<>>
    /\ \E id \in DOMAIN stateFile \ scraped_offer_ids :
          /\ stateFile[id].price_usd # None
          /\ stateFile[id].notified_as_removed_at # None
          /\ stateFile[id].notified_as_removed_at < now

\* --------------------------------------------------------------- C22
\* C22: state write withheld until delivery succeeds (funpay_scraper_v2.py).
\* The processed-ids file changes only by appending the new ids of a run
\* whose notification returned success; the ids a failed notification left
\* out of the file are new again in the next run that scrapes them; an id
\* of the loaded processed-ids set is never among the new ids.
C22_WriteWithheldUntilDelivered ==
    [][ /\ processed_ids_file' # processed_ids_file =>
              /\ v2_pc = "notified"
              /\ notification_sent
              /\ \E new_ids \in Orderings(new_offer_ids) :
                    processed_ids_file' = processed_ids_file \o new_ids
        /\ (v2_pc = "notified" /\ ~notification_sent) =>
              processed_ids_file' = processed_ids_file
        /\ v2_pc' = "identified" =>
              /\ new_offer_ids' \cap processed_ids_set' = {}
              /\ (unnotified_ids' \cap current_scraped_ids') \subseteq new_offer_ids'
      ]_vars

\* a second run finds again the id whose notification failed, next to an id
\* that an earlier successful run has put in the file
C22_Witness ==
    /\ v2_pc = "identified"
    /\ unnotified_ids # {}
    /\ unnotified_ids \subseteq new_offer_ids
    /\ processed_ids_set \cap current_scraped_ids # {}
    /\ \E i \in 1..Len(processed_ids_file) : processed_ids_file[i] \in V2Ids

\* --------------------------------------------------------------- C23
\* the tokens of a document of the given kind, in order
TokensOfKind(document, kind) ==
    LET F[i \in 0..Len(document)] ==
            IF i = 0 THEN <<>>
            ELSE IF document[i].kind = kind THEN Append(F[i - 1], document[i])
            ELSE F[i - 1]
    IN  F[Len(document)]

\* the lists that are given a section, in the order of the sections
ListedOffers ==
    IF variant = "local"
    THEN new_offers_notify \o discounted_offers_notify \o removed_offers_notify
    ELSE new_offers_notify \o discounted_offers_notify

ListedSections ==
    LET titled == IF variant = "local"
                  THEN << <<"New/Reappeared", new_offers_notify>>,
                          <<"On Sale", discounted_offers_notify>>,
                          <<"Removed/Sold", removed_offers_notify>> >>
                  ELSE << <<"New Offers", new_offers_notify>>,
                          <<"On Sale", discounted_offers_notify>> >>
    IN  SelectSeq(titled, LAMBDA t : t[2] # <<>>)

\* C23: sequential numbering.  In a formatted document the entries carry the
\* numbers 1..n in order, n being the total number of entries of the new,
\* discounted and removed lists taken in that order; a section appears for
\* each non-empty list and for no empty one.
C23_SequentialNumbering ==
    (pc \in {"formatted", "discord_done", "dispatched", "done"}
        /\ \E i \in 1..Len(full_message) : full_message[i].kind \in {"section", "entry"}) =>
        LET entries == TokensOfKind(full_message, "entry")
            sections == TokensOfKind(full_message, "section")
        IN  /\ Len(entries) = Len(ListedOffers)
            /\ \A i \in 1..Len(entries) :
                  /\ entries[i].number = i
                  /\ entries[i].id = ListedOffers[i].id
            /\ Len(sections) = Len(ListedSections)
            /\ \A i \in 1..Len(sections) : sections[i].title = ListedSections[i][1]
            /\ \A i \in 1..Len(full_message) :
                  full_message[i].kind = "section" =>
                      /\ i < Len(full_message)
                      /\ full_message[i + 1].kind = "entry"

\* a document of funpay_scraper_local.py with a new and a removed entry and
\* no discounted one: the removed entry is number 2
C23_Witness ==
    /\ variant = "local"
    /\ pc = "formatted"
    /\ Len(new_offers_notify) = 1
    /\ discounted_offers_notify = <<>>
    /\ Len(removed_offers_notify) = 1
    /\ \E i \in 1..Len(full_message) :
          /\ full_message[i].kind = "entry"
          /\ full_message[i].number = 2
          /\ full_message[i].id = removed_offers_notify[1].id

\* --------------------------------------------------------------- C24
\* C24: baseline retention on a sub-threshold decrease
\* (funpay_scraper_local.py).  A decrease at or below the threshold leaves
\* the stored price in the next snapshot; the next run loads that price as
\* the stored one and measures the drop against it, so the id is discounted,
\* with the retained price as last_price, exactly when the drop from the
\* retained price is above the threshold.
C24_BaselineRetained ==
    (variant = "local" /\ pc \in AfterScrapedLoop) =>
        /\ \A id \in SmallDecreaseIds :
              /\ Get(next_offer_state[id], "price_usd")
                    = Get(previous_offer_state[id], "price_usd")
              /\ id \notin IdsOf(discounted_offers_notify)
        /\ \A id \in DOMAIN retainedBaseline \cap DOMAIN previous_offer_state :
              LET baseline == retainedBaseline[id]
              IN  /\ Get(previous_offer_state[id], "price_usd") = baseline
                  /\ (id \in IdsOf(current_offers_scrape_dict) /\ ScrapedPrice(id) # None) =>
                        /\ (id \in IdsOf(discounted_offers_notify)) <=>
                              (baseline - ScrapedPrice(id)) * 100
                                  > PRICE_CHANGE_PERCENT_THRESHOLD * baseline
                        /\ \A k \in 1..Len(discounted_offers_notify) :
                              discounted_offers_notify[k].id = id =>
                                  discounted_offers_notify[k].last_price = baseline

\* 21 was kept when the price went to 20; at 19 the drop from 20 is exactly
\* the threshold, the drop from 21 is above it
C24_Witness ==
    /\ variant = "local"
    /\ pc \in AfterScrapedLoop
    /\ \E id \in DOMAIN retainedBaseline :
          /\ retainedBaseline[id] = 21
          /\ \E k \in 1..Len(discounted_offers_notify) :
                /\ discounted_offers_notify[k].id = id
                /\ discounted_offers_notify[k].price_usd = 19
                /\ discounted_offers_notify[k].last_price = 21

\* --------------------------------------------------------------- C25
\* C25: a no-change run leaves the state file untouched
\* (funpay_scraper_v3.py).  When a run has found no new offer, no discount
\* above the threshold and no removed id, its last step does not call
\* save_offer_state: the file and its validity stay as they were loaded and
\* the run has written nothing.
C25_NoChangeNoSave ==
    [][(/\ variant = "v3"
        /\ pc = "dispatched"
        /\ new_offers_notify = <<>>
        /\ discounted_offers_notify = <<>>
        /\ removed_offer_count = 0) =>
           /\ pc' = "done"
           /\ writes = 0
           /\ writes' = 0
           /\ saveOutcome' = saveOutcome
           /\ stateFile' = stateFile
           /\ stateFileTruncated' = stateFileTruncated
           /\ ~stateFileTruncated => stateFile' = previous_offer_state]_vars

\* a finished run without a change although a scraped price differs from
\* the stored one, which stays in the file
C25_Witness ==
    /\ variant = "v3"
    /\ pc = "done"
    /\ writes = 0
    /\ new_offers_notify = <<>>
    /\ discounted_offers_notify = <<>>
    /\ removed_offer_count = 0
    /\ ~stateFileTruncated
    /\ stateFile = previous_offer_state
    /\ \E id \in DOMAIN stateFile :
          /\ ScrapedPrice(id) # None
          /\ ScrapedPrice(id) # stateFile[id]
          /\ next_offer_state[id] = ScrapedPrice(id)

\* --------------------------------------------------------------- C26
\* C26: run completion (funpay_scraper_local.py).  A run whose scrape has
\* succeeded is never stopped before the save step, whatever the loaded
\* snapshot and the scraped prices, absent ones included; when the write
\* meets no error the file afterwards is the next snapshot of the run.
C26_RunReachesSave ==
    variant = "local" =>
        /\ pc # "crashed"
        /\ (pc = "done" /\ saveOutcome = "written") => stateFile = next_offer_state

\* --------------------------------------------------------------- C27
\* C27: change lists duplicate-free and disjoint (funpay_scraper_local.py).
\* Every offer id has at most one entry in the new, discounted and removed
\* lists of a run taken together, whatever the previous snapshot holds,
\* removal markers and absent stored prices included.
C27_OneEntryPerId ==
    (variant = "local" /\ pc \in AfterScrapedLoop) =>
        \A id \in Ids :
            Occurrences(new_offers_notify, id)
                + Occurrences(discounted_offers_notify, id)
                + Occurrences(removed_offers_notify, id) <= 1

\* --------------------------------------------------------------- C28
\* C28: removal-marker invariant (funpay_scraper_local.py).  In the next
\* snapshot of a run every id of the scrape has no removal marker, every id
\* of the loaded snapshot that is absent from the scrape has one, and a
\* marker that was already set when the snapshot was loaded is kept as it
\* was for an id that is still absent.
C28_RemovalMarkerInvariant ==
    (variant = "local" /\ pc \in AfterLoops) =>
        LET loaded == load_offer_state("local", stateFile, stateFileTruncated)
        IN  /\ \A id \in IdsOf(current_offers_scrape_dict) :
                  /\ id \in DOMAIN next_offer_state
                  /\ "notified_as_removed_at" \in DOMAIN next_offer_state[id]
                  /\ next_offer_state[id].notified_as_removed_at = None
            /\ \A id \in DOMAIN loaded \ IdsOf(current_offers_scrape_dict) :
                  /\ id \in DOMAIN next_offer_state
                  /\ Get(next_offer_state[id], "notified_as_removed_at") # None
                  /\ Get(loaded[id], "notified_as_removed_at") # None =>
                        next_offer_state[id].notified_as_removed_at
                            = loaded[id].notified_as_removed_at
                  /\ Get(loaded[id], "notified_as_removed_at") = None =>
                        next_offer_state[id].notified_as_removed_at = now

\* one id still absent with the marker of an earlier run, the other back in
\* the scrape with its marker cleared
C28_Witness ==
    /\ variant = "local"
    /\ pc \in AfterLoops
    /\ ~stateFileTruncated
    /\ \E id \in DOMAIN stateFile \ IdsOf(current_offers_scrape_dict) :
          /\ stateFile[id].notified_as_removed_at # None
          /\ stateFile[id].notified_as_removed_at < now
          /\ next_offer_state[id].notified_as_removed_at
                = stateFile[id].notified_as_removed_at
    /\ \E id \in DOMAIN stateFile \cap IdsOf(current_offers_scrape_dict) :
          /\ stateFile[id].notified_as_removed_at # None
          /\ next_offer_state[id].notified_as_removed_at = None

\* --------------------------------------------------------------- C29
\* C29: the Discord chunk loop terminates.  Every turn of the splitting loop
\* leaves a strictly shorter remaining text, so the turns, and the chunks
\* posted, are at most as many as the characters of the text, and the call
\* returns, whether the posts succeed or fail; a chunk is posted only while
\* every chunk before it was accepted.
C29_ChunkLoopTerminates ==
    /\ [][((send_pc = "loop" /\ remaining_message # <<>>) =>
               (/\ message_index' = message_index + 1
                /\ StrLen(remaining_message') < StrLen(remaining_message)))
          /\ ((posted' # posted) =>
               (/\ send_pc = "loop"
                /\ Len(posted') = Len(posted) + 1
                /\ \A i \in 1..Len(posted) : posted[i].accepted))]_vars
    /\ [](/\ Len(posted) <= message_index
          /\ message_index <= StrLen(message_text))
    /\ <>(send_pc = "returned")

\* a call that has returned after a third chunk was refused, with text left
C29_Witness ==
    /\ send_pc = "returned"
    /\ Len(posted) = 3
    /\ posted[1].accepted
    /\ posted[2].accepted
    /\ ~posted[3].accepted
    /\ remaining_message # <<>>
    /\ ~send_result

\* --------------------------------------------------------------- C30
\* the runs of s that come from the text handed to the sender and are not
\* whitespace, in order
RECURSIVE OriginalText(_)
OriginalText(s) ==
    IF s = <<>> THEN <<>>
    ELSE IF Head(s).src >= 0 /\ ~IsWhitespace(Head(s))
         THEN <<Head(s)>> \o OriginalText(Tail(s))
         ELSE OriginalText(Tail(s))

\* the payloads posted so far, one after the other
RECURSIVE PostedContent(_)
PostedContent(payloads) ==
    IF payloads = <<>> THEN <<>>
    ELSE Head(payloads).content \o PostedContent(Tail(payloads))

\* C30: Discord chunking preserves content (funpay_scraper_local.py).  For a
\* text longer than the limit whose posts were all accepted, the payloads in
\* order hold every character of the text that is not whitespace, once and
\* in the order of the text.
C30_ChunkingPreservesContent ==
    (/\ variant = "local"
     /\ send_pc = "returned"
     /\ send_result
     /\ \A i \in 1..Len(posted) : posted[i].accepted
     /\ StrLen(message_text) > DISCORD_MAX_MSG_LENGTH) =>
        LET sent == OriginalText(PostedContent(posted))
        IN  /\ StrLen(sent) = StrLen(OriginalText(message_text))
            /\ \A i \in 1..(Len(sent) - 1) : sent[i].src + sent[i].len <= sent[i + 1].src

====
